---- MODULE Spec2Model ----
(***************************************************************************)
(* Severity scoring of detection/score.py: calculate_facial_severity_v2    *)
(* and the steps of analyze_skin_image that follow model.predict: the      *)
(* score and the list of labels.                                           *)
(*                                                                         *)
(* Python floats are modelled as exact rationals <<n, d>> (d > 0, lowest   *)
(* terms); rounding error of IEEE arithmetic is outside the model.         *)
(* A detection is a record [x1, y1, x2, y2, cls, conf]: the detector's     *)
(* Boxes objects always carry the three tensors xyxy, cls and conf, so the *)
(* except-branches that skip a box with an unreadable field never run for  *)
(* the inputs modelled here.  conf is kept in tenths.  image_shape is the  *)
(* shape of a numpy array, always a tuple of at least two entries, so the  *)
(* isinstance test of line 102 never fires.                                *)
(***************************************************************************)
EXTENDS Integers, Sequences, FiniteSets, TLC

\* ------------------------------------------------------------------ bounds
\* Largest number of boxes the detector returns for one image.
MaxDet == 2

\* ------------------------------------------------- exact float arithmetic
Abs(x) == IF x < 0 THEN -x ELSE x

RECURSIVE GCD(_, _)
GCD(a, b) == IF b = 0 THEN a ELSE GCD(b, a % b)

\* The rational n/d in lowest terms with a positive denominator (d # 0).
Rat(n, d) ==
    LET g == GCD(Abs(n), Abs(d))
        s == IF d < 0 THEN -1 ELSE 1
    IN  <<(s * n) \div g, (s * d) \div g>>

Float(i) == <<i, 1>>
RAdd(a, b) == Rat(a[1] * b[2] + b[1] * a[2], a[2] * b[2])
RMul(a, b) == Rat(a[1] * b[1], a[2] * b[2])
RDiv(a, b) == Rat(a[1] * b[2], a[2] * b[1])
RLe(a, b) == a[1] * b[2] <= b[1] * a[2]
RLt(a, b) == a[1] * b[2] < b[1] * a[2]
RMin(a, b) == IF RLt(b, a) THEN b ELSE a
RMax(a, b) == IF RLt(a, b) THEN b ELSE a

\* ------------------------------------------------------------ configuration
\* The class table of the trained model (result.names / model.names).
model_names ==
    (0 :> "Acne" @@ 1 :> "Pigmentation" @@ 2 :> "Blackheads"
       @@ 3 :> "Excess sebum" @@ 4 :> "Enlarged Pores")

SEVERITY_SCORE_MAP ==
    ("Acne" :> 5 @@ "Pigmentation" :> 4 @@ "Blackheads" :> 2
       @@ "Excess sebum" :> 2 @@ "Enlarged Pores" :> 1)

DEFAULT_SEVERITY_SCORE == 1
HEATMAP_WEIGHTING == "confidence"
HEATMAP_ALPHA == Rat(1, 2)
GAUSSIAN_SPREAD_SIGMA == 40
SECONDARY_BLUR_KERNEL_SIZE == 0
AREA_WEIGHT == Rat(3, 10)
INTENSITY_WEIGHT == Rat(6, 10)
SCORE_RANGE == <<0, 100>>

\* ------------------------------------------------------------ input domains
\* Class ids the detector reports: two of the table and one absent from it.
ClassIds == {0, 2, 7}

\* f"class_{class_id}"
FormatClass(class_id) ==
    CASE class_id = 0 -> "class_0"
      [] class_id = 2 -> "class_2"
      [] class_id = 7 -> "class_7"

\* Box corners <<x1, y1, x2, y2>>: 1x1, 3x3, zero width, negative height.
BoxCorners == {<<0, 0, 1, 1>>, <<0, 0, 3, 3>>, <<1, 0, 1, 2>>, <<0, 2, 1, 1>>}

Confidences == {3, 9}

Detections ==
    {[x1 |-> c[1], y1 |-> c[2], x2 |-> c[3], y2 |-> c[4], cls |-> k, conf |-> p] :
        c \in BoxCorners, k \in ClassIds, p \in Confidences}

RECURSIVE SeqsUpTo(_, _)
SeqsUpTo(S, n) ==
    IF n = 0 THEN {<<>>}
    ELSE LET shorter == SeqsUpTo(S, n - 1)
         IN  shorter \cup {Append(s, e) : s \in {t \in shorter : Len(t) = n - 1}, e \in S}

\* model.predict(...): a list with one Results object for the one image.
AsResults(bs) == <<[boxes |-> bs]>>

\* image.shape[:2] = (height, width)
ImageShapes == {<<0, 4>>, <<4, 4>>}

\* (severity_map, default_s_i): the module's defaults, an empty map, and a map
\* without a positive weight that also names the synthetic label of class 7.
SeverityConfigs ==
    { <<SEVERITY_SCORE_MAP, DEFAULT_SEVERITY_SCORE>>,
      <<<<>>, 3>>,
      <<("Acne" :> -2 @@ "class_7" :> 0), 2>> }

ScoreRanges == {SCORE_RANGE, <<10, 20>>}

\* (area_weight, intensity_weight)
Weights == {<<AREA_WEIGHT, INTENSITY_WEIGHT>>, <<Rat(6, 10), Rat(6, 10)>>}

\* --------------------------------------------- calculate_facial_severity_v2
\* The degenerate tuple of the early returns.
Degenerate(score_range) ==
    [score |-> Float(score_range[1]), percentage_area |-> Float(0),
     average_intensity |-> Float(0), lesion_count |-> 0, raised |-> FALSE]

\* Mutant: an id missing from the table is labelled "unknown".
ClassNameUnknown(names, class_id) ==
    IF class_id \in DOMAIN names THEN names[class_id] ELSE "unknown"

\* names.get(class_id, f"class_{class_id}")
ClassName(names, class_id) ==
    IF class_id \in DOMAIN names THEN names[class_id] ELSE FormatClass(class_id)

\* severity_map.get(class_name, default_s_i)
SeverityOf(severity_map, default_s_i, class_name) ==
    IF class_name \in DOMAIN severity_map THEN severity_map[class_name] ELSE default_s_i

\* Mutant: only the width is tested.
SkippedWidthOnly(box) == box.x2 - box.x1 <= 0

\* if w <= 0 or h <= 0: continue
Skipped(box) == box.x2 - box.x1 <= 0 \/ box.y2 - box.y1 <= 0

\* Mutant: the box is counted before the width/height test.
LoopBodyCountsFirst(acc, box, names, severity_map, default_s_i) ==
    IF Skipped(box) THEN [acc EXCEPT !.valid_detections = @ + 1]
    ELSE [total_lesion_area |-> acc.total_lesion_area + (box.x2 - box.x1) * (box.y2 - box.y1),
          sum_severity_points |-> acc.sum_severity_points
              + SeverityOf(severity_map, default_s_i, ClassName(names, box.cls)),
          valid_detections |-> acc.valid_detections + 1]

\* One iteration of the loop over the boxes.
LoopBody(acc, box, names, severity_map, default_s_i) ==
    IF Skipped(box) THEN acc
    ELSE [total_lesion_area |-> acc.total_lesion_area + (box.x2 - box.x1) * (box.y2 - box.y1),
          sum_severity_points |-> acc.sum_severity_points
              + SeverityOf(severity_map, default_s_i, ClassName(names, box.cls)),
          valid_detections |-> acc.valid_detections + 1]

\* Mutant: the counter of usable boxes starts at 1.
InitAccOffByOne ==
    [total_lesion_area |-> 0, sum_severity_points |-> 0, valid_detections |-> 1]

\* total_lesion_area = 0.0; sum_severity_points = 0.0; valid_detections = 0
InitAcc == [total_lesion_area |-> 0, sum_severity_points |-> 0, valid_detections |-> 0]

RECURSIVE Loop(_, _, _, _, _)
Loop(bs, i, names, severity_map, default_s_i) ==
    IF i = 0 THEN InitAcc
    ELSE LoopBody(Loop(bs, i - 1, names, severity_map, default_s_i), bs[i],
                  names, severity_map, default_s_i)

\* max(severity_map.values())
MaxValue(severity_map) ==
    CHOOSE v \in {severity_map[k] : k \in DOMAIN severity_map} :
        \A k \in DOMAIN severity_map : severity_map[k] <= v

\* max_possible_avg_intensity, after the "<= 0 -> 5.0" repair.
MaxPossibleAvgIntensity(severity_map, default_s_i) ==
    LET m == IF DOMAIN severity_map # {} THEN MaxValue(severity_map) ELSE default_s_i
    IN  IF m <= 0 THEN 5 ELSE m

\* Mutant: the final clamp is missing.
ClampMissing(score_range, final_score) == final_score

\* final_score = max(score_range[0], min(score_range[1], final_score))
Clamp(score_range, final_score) ==
    RMax(Float(score_range[1]), RMin(Float(score_range[2]), final_score))

\* The raised flag stands for a ZeroDivisionError leaving the function.
Raised ==
    [score |-> Float(0), percentage_area |-> Float(0),
     average_intensity |-> Float(0), lesion_count |-> 0, raised |-> TRUE]

\* Mutant: the fraction is not scaled to a percentage.
PercentageAsFraction(total_lesion_area, total_image_area) ==
    Rat(total_lesion_area, total_image_area)

\* percentage_affected_area = (total_lesion_area / total_image_area) * 100.0
PercentageAffectedArea(total_lesion_area, total_image_area) ==
    RMul(Rat(total_lesion_area, total_image_area), Float(100))

\* Mutant: the area ratio is not capped at 1.
ScaledAreaUncapped(percentage_affected_area, span) ==
    RMul(RDiv(percentage_affected_area, Float(50)), span)

\* min(1.0, percentage_affected_area / max_expected_area_percent) * (hi - lo)
ScaledAreaComponent(percentage_affected_area, span) ==
    RMul(RMin(Float(1), RDiv(percentage_affected_area, Float(50))), span)

\* Mutant: the intensity ratio is inverted.
ScaledIntensityInverted(average_intensity, max_possible_avg_intensity, span) ==
    IF average_intensity[1] = 0 THEN span
    ELSE RMul(RMin(Float(1), RDiv(Float(max_possible_avg_intensity), average_intensity)), span)

\* min(1.0, average_intensity / max_possible_avg_intensity) * (hi - lo)
ScaledIntensityComponent(average_intensity, max_possible_avg_intensity, span) ==
    RMul(RMin(Float(1), RDiv(average_intensity, Float(max_possible_avg_intensity))), span)

\* The computed path, after the loop found N > 0 usable boxes.  The divisions
\* by total_image_area and by N raise ZeroDivisionError on a zero divisor.
Computed(acc, total_image_area, severity_map, default_s_i, score_range, weights) ==
    IF total_image_area = 0 \/ acc.valid_detections = 0 THEN Raised
    ELSE
    LET N == acc.valid_detections
        span == Float(score_range[2] - score_range[1])
        percentage_affected_area ==
            PercentageAffectedArea(acc.total_lesion_area, total_image_area)
        average_intensity == Rat(acc.sum_severity_points, N)
        scaled_area_component == ScaledAreaComponent(percentage_affected_area, span)
        scaled_intensity_component ==
            ScaledIntensityComponent(average_intensity,
                MaxPossibleAvgIntensity(severity_map, default_s_i), span)
        final_score ==
            RAdd(RAdd(RMul(weights[1], scaled_area_component),
                      RMul(weights[2], scaled_intensity_component)),
                 Float(score_range[1]))
    IN  [score |-> Clamp(score_range, final_score),
         percentage_area |-> percentage_affected_area,
         average_intensity |-> average_intensity,
         lesion_count |-> N, raised |-> FALSE]

\* Mutant: the image area is not tested.
EarlyReturnNoAreaTest(bs, total_image_area) == Len(bs) = 0

\* if N == 0 or total_image_area <= 0: return the degenerate tuple
EarlyReturn(bs, total_image_area) == Len(bs) = 0 \/ total_image_area <= 0

\* Mutant: the test after the loop is missing.
NoneUsableUntested(acc) == FALSE

\* if N == 0 (no usable box after the loop): return the degenerate tuple
NoneUsable(acc) == acc.valid_detections = 0

\* if not detection_results or len(detection_results) == 0
NoResults(detection_results) == Len(detection_results) = 0

calculate_facial_severity_v2(detection_results, image_shape, names, severity_map, default_s_i, score_range, weights) ==
    IF NoResults(detection_results) THEN Degenerate(score_range)
    ELSE
    LET bs == detection_results[1].boxes
        total_image_area == image_shape[1] * image_shape[2]
    IN  IF EarlyReturn(bs, total_image_area) THEN Degenerate(score_range)
        ELSE LET acc == Loop(bs, Len(bs), names, severity_map, default_s_i)
             IN  IF NoneUsable(acc) THEN Degenerate(score_range)
                 ELSE Computed(acc, total_image_area, severity_map, default_s_i,
                               score_range, weights)

\* -------------------------------------------------- generate_spread_heatmap
\* An image is [h, w, px]: px maps a pixel <<y, x>> to its <<b, g, r>> bytes
\* (cv2.imread gives a 3-channel uint8 array, so the ndim test of line 47
\* never fires).  A field maps every pixel to a number.
Pixels(h, w) == (0 .. h - 1) \X (0 .. w - 1)

\* Mutant: the zero field is allocated as (width, height).
ZeroFieldTransposed(h, w) == [p \in Pixels(w, h) |-> 0]

\* np.zeros(image.shape[:2])
ZeroField(h, w) == [p \in Pixels(h, w) |-> 0]

\* int(v / 2): Python's int() truncates towards zero.
HalfTrunc(v) == IF v >= 0 THEN v \div 2 ELSE -((-v) \div 2)

\* Mutant: the midpoint is used as it is.
CentreUnclamped(a, b, size) == HalfTrunc(a + b)

\* max(0, min(size - 1, int((a + b) / 2)))
Centre(a, b, size) ==
    LET c == HalfTrunc(a + b)
        m == IF size - 1 < c THEN size - 1 ELSE c
    IN  IF m < 0 THEN 0 ELSE m

\* Mutant: the weighting mode is ignored and the confidence always used.
PointWeightConfidenceOnly(box, names, severity_map, default_s_i, weighting) ==
    Rat(box.conf, 10)

\* point_weight of one box: the severity weight, the confidence, or 1.0.
PointWeight(box, names, severity_map, default_s_i, weighting) ==
    IF weighting = "severity"
    THEN Float(SeverityOf(severity_map, default_s_i, ClassName(names, box.cls)))
    ELSE IF weighting = "confidence" THEN Rat(box.conf, 10)
    ELSE Float(1)

\* points_data: (cy, cx, point_weight) of every box whose weight is > 0.
RECURSIVE PointsData(_, _, _, _, _, _, _, _)
PointsData(bs, i, img_h, img_w, names, severity_map, default_s_i, weighting) ==
    IF i = 0 THEN <<>>
    ELSE LET rest == PointsData(bs, i - 1, img_h, img_w, names, severity_map,
                                default_s_i, weighting)
             box == bs[i]
             pw == PointWeight(box, names, severity_map, default_s_i, weighting)
         IN  IF RLt(Float(0), pw)
             THEN Append(rest, [cy |-> Centre(box.y1, box.y2, img_h),
                                cx |-> Centre(box.x1, box.x2, img_w),
                                weight |-> pw])
             ELSE rest

\* for y, x, weight in points_data: heatmap_raw[y, x] += weight
RECURSIVE Accumulate(_, _, _, _)
Accumulate(points, i, img_h, img_w) ==
    IF i = 0 THEN [p \in Pixels(img_h, img_w) |-> Float(0)]
    ELSE LET f == Accumulate(points, i - 1, img_h, img_w)
             at == <<points[i].cy, points[i].cx>>
         IN  [f EXCEPT ![at] = RAdd(@, points[i].weight)]

\* Border handling of the two blurs: scipy's mode 'reflect' repeats the edge
\* sample (d c b a | a b c d), OpenCV's BORDER_REFLECT_101 does not
\* (d c b | a b c d).
Reflect(i, n) == IF i < 0 THEN 0 ELSE IF i > n - 1 THEN n - 1 ELSE i
Reflect101(i, n) ==
    IF n = 1 THEN 0 ELSE IF i < 0 THEN 1 ELSE IF i > n - 1 THEN n - 2 ELSE i

\* One separable pass of the kernel [1 2 1] / 4 along x, then along y.
Smooth(f, h, w, mode) ==
    LET ix(i, n) == IF mode = "reflect" THEN Reflect(i, n) ELSE Reflect101(i, n)
        k(a, b, c) == RMul(RAdd(RAdd(a, RMul(Float(2), b)), c), Rat(1, 4))
        fx == [p \in Pixels(h, w) |->
                  k(f[<<p[1], ix(p[2] - 1, w)>>], f[p], f[<<p[1], ix(p[2] + 1, w)>>])]
    IN  [p \in Pixels(h, w) |->
            k(fx[<<ix(p[1] - 1, h), p[2]>>], fx[p], fx[<<ix(p[1] + 1, h), p[2]>>])]

\* gaussian_filter(heatmap_raw, sigma=spread_sigma).  The Gaussian weights are
\* irrational; the blur is abstracted to the rational kernel [1 2 1] / 4 with
\* scipy's 'reflect' border, which like it is positive, symmetric and sums to 1.
GaussianFilter(f, h, w) == Smooth(f, h, w, "reflect")

\* cv2.GaussianBlur(f, (3, 3), 0): the fixed kernel [0.25 0.5 0.25].
GaussianBlur3(f, h, w) == Smooth(f, h, w, "reflect101")

\* The two optional blurs of lines 82-85.
Blurred(raw, h, w, spread_sigma, secondary_blur_ksize) ==
    LET heatmap_spread == IF spread_sigma > 0 THEN GaussianFilter(raw, h, w) ELSE raw
    IN  IF secondary_blur_ksize > 1 /\ secondary_blur_ksize % 2 = 1
        THEN GaussianBlur3(heatmap_spread, h, w)
        ELSE heatmap_spread

FieldMax(f) == CHOOSE v \in {f[p] : p \in DOMAIN f} : \A p \in DOMAIN f : RLe(f[p], v)
FieldMin(f) == CHOOSE v \in {f[p] : p \in DOMAIN f} : \A p \in DOMAIN f : RLe(v, f[p])

\* cvRound: to the nearest integer, ties to the even one.
Round(r) ==
    LET fl == r[1] \div r[2]
        rem == r[1] - fl * r[2]
    IN  IF 2 * rem < r[2] THEN fl
        ELSE IF 2 * rem > r[2] THEN fl + 1
        ELSE IF fl % 2 = 0 THEN fl ELSE fl + 1

\* saturate_cast<uchar>
Saturate(r) == LET v == Round(r) IN IF v < 0 THEN 0 ELSE IF v > 255 THEN 255 ELSE v

\* cv2.normalize(f, None, 0, 255, cv2.NORM_MINMAX, dtype=cv2.CV_8U): the scale
\* is 255 / (max - min), and 0 when max - min is not above DBL_EPSILON.
NormalizeMinMax(f) ==
    LET smin == FieldMin(f)
        smax == FieldMax(f)
    IN  IF smax = smin THEN [p \in DOMAIN f |-> 0]
        ELSE LET scale == RDiv(Float(255), RAdd(smax, RMul(Float(-1), smin)))
             IN  [p \in DOMAIN f |->
                     Saturate(RMul(RAdd(f[p], RMul(Float(-1), smin)), scale))]

\* if max_val > 1e-6: normalize, else an all-zero field
HeatmapNorm(f) ==
    IF RLt(Rat(1, 1000000), FieldMax(f)) THEN NormalizeMinMax(f)
    ELSE [p \in DOMAIN f |-> 0]

\* cv2.COLORMAP_JET as <<b, g, r>>, in its piecewise-linear form
\* 255 x clamp(1.5 - |4 v / 255 - c|, 0, 1) with c = 1, 2, 3 for b, g, r.
Jet(v) ==
    LET ch(c) ==
            LET d == RAdd(Rat(4 * v, 255), Float(-c))
                a == IF RLt(d, Float(0)) THEN RMul(Float(-1), d) ELSE d
                u == RAdd(Rat(3, 2), RMul(Float(-1), a))
            IN  Saturate(RMul(Float(255), RMax(Float(0), RMin(Float(1), u))))
    IN  <<ch(1), ch(2), ch(3)>>

\* Mutant: the image is added at full weight.
AddWeightedFullImage(colour, alpha, original) ==
    Saturate(RAdd(RMul(alpha, Float(colour)), Float(original)))

\* cv2.addWeighted(heatmap_color, alpha, image_uint8, 1 - alpha, 0), per byte
AddWeighted(colour, alpha, original) ==
    Saturate(RAdd(RMul(alpha, Float(colour)),
                  RMul(RAdd(Float(1), RMul(Float(-1), alpha)), Float(original))))

\* The early returns: the image itself and a zero field of its height x width.
Unrendered(image) ==
    [overlay |-> image.px, field |-> ZeroField(image.h, image.w),
     raw |-> [p \in Pixels(image.h, image.w) |-> Float(0)],
     colour |-> image.px, points |-> <<>>, blended |-> FALSE]

generate_spread_heatmap(image, detection_results, names, severity_map, default_s_i, weighting, alpha, spread_sigma, secondary_blur_ksize) ==
    IF NoResults(detection_results) THEN Unrendered(image)
    ELSE
    LET bs == detection_results[1].boxes
        num_detections == Len(bs)
        points_data == PointsData(bs, Len(bs), image.h, image.w, names, severity_map,
                                  default_s_i, weighting)
    IN  IF num_detections = 0 \/ Len(points_data) = 0 THEN Unrendered(image)
        ELSE
        LET heatmap_raw == Accumulate(points_data, Len(points_data), image.h, image.w)
            heatmap_blurred ==
                Blurred(heatmap_raw, image.h, image.w, spread_sigma, secondary_blur_ksize)
            heatmap_norm == HeatmapNorm(heatmap_blurred)
        IN  [overlay |->
                 [p \in Pixels(image.h, image.w) |->
                     [k \in 1..3 |->
                         AddWeighted(Jet(heatmap_norm[p])[k], alpha, image.px[p][k])]],
             field |-> heatmap_norm,
             raw |-> heatmap_raw,
             colour |-> [p \in Pixels(image.h, image.w) |-> Jet(heatmap_norm[p])],
             points |-> points_data,
             blended |-> TRUE]

\* ------------------------------------------------------- analyze_skin_image
VARIABLES
    predict_results,  \* what model.predict returned
    image_shape,      \* original_shape[:2]
    severity_map,
    default_severity,
    score_range,
    weights,          \* <<area_weight, intensity_weight>>
    pc,               \* position inside analyze_skin_image
    raised,           \* an exception left calculate_facial_severity_v2
    results,          \* the results dict
    heat_in,          \* the arguments of one generate_spread_heatmap call
    heat_out,         \* <<>> until it returns, then << its result >>
    call,             \* one whole analyze_skin_image call: arguments and locals
    calls,            \* two analyze_skin_image calls running concurrently
    request,          \* one request to the detection endpoint
    profile_db,       \* the user_profiles table and the last profile operation
    ts_db             \* the timeseries and profiles databases of create_db.py

vars == <<predict_results, image_shape, severity_map, default_severity, score_range,
          weights, pc, raised, results, heat_in, heat_out, call, calls, request,
          profile_db, ts_db>>

\* The variables of the scoring steps, of a lone heatmap call, of one whole
\* analysis and of the concurrent analyses: each specification below moves
\* one group and holds the others at rest.
score_vars == <<predict_results, image_shape, severity_map, default_severity,
                score_range, weights, pc, raised, results>>
heat_vars == <<heat_in, heat_out>>
api_vars == <<request>>
db_vars == <<profile_db, ts_db>>

inputs == <<predict_results, image_shape, severity_map, default_severity, score_range,
            weights>>

\* predict_results[0].boxes, the raw detections (none without a Results object)
boxes == IF Len(predict_results) = 0 THEN <<>> ELSE predict_results[1].boxes

\* results = {...} at the top of analyze_skin_image
InitialResults(range) ==
    [success |-> FALSE, severity_score |-> Float(range[1]),
     percentage_area |-> Float(0), average_intensity |-> Float(0),
     lesion_count |-> 0, detections |-> <<>>]

\* Scenario A of the specification: a 1000x1000 image with the single box
\* (100,100)-(200,200) whose class has severity weight 3, range (0,100).
ScenarioBox == [x1 |-> 100, y1 |-> 100, x2 |-> 200, y2 |-> 200, cls |-> 0, conf |-> 9]
ScenarioConfigs ==
    { <<("Acne" :> 3 @@ "Pigmentation" :> 5), DEFAULT_SEVERITY_SCORE>>,
      <<("Acne" :> 3), DEFAULT_SEVERITY_SCORE>> }

ScoreAtRest ==
    /\ predict_results = <<>>
    /\ image_shape = <<1, 1>>
    /\ severity_map = SEVERITY_SCORE_MAP
    /\ default_severity = DEFAULT_SEVERITY_SCORE
    /\ score_range = SCORE_RANGE
    /\ weights = <<AREA_WEIGHT, INTENSITY_WEIGHT>>
    /\ pc = "rest"
    /\ raised = FALSE
    /\ results = InitialResults(SCORE_RANGE)

HeatAtRest == heat_in = <<>> /\ heat_out = <<>>
CallAtRest == call = <<>>
CallsAtRest == calls = <<>>
RequestAtRest == request = <<>>
DbAtRest == profile_db = <<>> /\ ts_db = <<>>

Init ==
    /\ HeatAtRest /\ CallAtRest /\ CallsAtRest /\ RequestAtRest /\ DbAtRest
    /\ \/ /\ predict_results \in
                 {<<>>} \cup {AsResults(bs) : bs \in SeqsUpTo(Detections, MaxDet)}
          /\ image_shape \in ImageShapes
          /\ \E c \in SeverityConfigs : severity_map = c[1] /\ default_severity = c[2]
          /\ score_range \in ScoreRanges
          /\ weights \in Weights
       \/ /\ predict_results = AsResults(<<ScenarioBox>>)
          /\ image_shape = <<1000, 1000>>
          /\ \E c \in ScenarioConfigs : severity_map = c[1] /\ default_severity = c[2]
          /\ score_range = SCORE_RANGE
          /\ weights = <<AREA_WEIGHT, INTENSITY_WEIGHT>>
    /\ pc = "predicted"
    /\ raised = FALSE
    /\ results = InitialResults(score_range)

\* score, perc_a, avg_i, n_lesions = calculate_facial_severity_v2(...);
\* results.update({...})
CalculateScore ==
    /\ pc = "predicted"
    /\ LET r == calculate_facial_severity_v2(predict_results, image_shape, model_names,
                    severity_map, default_severity, score_range, weights)
       IN  IF r.raised
           THEN /\ raised' = TRUE
                /\ pc' = "failed"
                /\ results' = results
           ELSE /\ raised' = FALSE
                /\ pc' = "scored"
                /\ results' = [results EXCEPT !.severity_score = r.score,
                                              !.percentage_area = r.percentage_area,
                                              !.average_intensity = r.average_intensity,
                                              !.lesion_count = r.lesion_count]
    /\ UNCHANGED <<inputs, heat_vars, call, calls, api_vars, db_vars>>

\* One entry {'class_name', 'confidence'} per raw box, in detector order.
RECURSIVE Labels(_, _, _)
Labels(bs, i, names) ==
    IF i = 0 THEN <<>>
    ELSE Append(Labels(bs, i - 1, names),
                [class_name |-> ClassName(names, bs[i].cls), confidence |-> bs[i].conf])

\* The "Extract Detections" block, then success = True.
ExtractDetections ==
    /\ pc = "scored"
    /\ results' =
           [results EXCEPT
               !.detections =
                   IF Len(predict_results) > 0 /\ Len(predict_results[1].boxes) > 0
                   THEN Labels(predict_results[1].boxes, Len(predict_results[1].boxes),
                               model_names)
                   ELSE <<>>,
               !.success = TRUE]
    /\ pc' = "done"
    /\ UNCHANGED <<inputs, raised, heat_vars, call, calls, api_vars, db_vars>>

Next == CalculateScore \/ ExtractDetections

Spec == Init /\ [][Next]_vars

\* ------------------------------------- generate_spread_heatmap, called alone
MaxHeatDet == 2

\* A 1x1 and a 2x3 image whose bytes differ from pixel to pixel.
HeatImage(h, w) ==
    [h |-> h, w |-> w,
     px |-> [p \in Pixels(h, w) |-> <<40 * p[1] + 20 * p[2], 255 - 60 * p[2], 128>>]]
HeatImages == {HeatImage(1, 1), HeatImage(2, 3)}

\* Boxes centred on (0,0) and on (x 2, y 1), one of zero width, one wholly
\* outside the image beyond its last row and column and one wholly outside
\* it at negative coordinates; a known and an unknown class.
HeatBoxCorners == {<<0, 0, 1, 1>>, <<1, 0, 3, 2>>, <<4, 4, 8, 8>>, <<1, 0, 1, 2>>}
HeatDetections ==
    {[x1 |-> c[1], y1 |-> c[2], x2 |-> c[3], y2 |-> c[4], cls |-> 0, conf |-> 9] :
        c \in HeatBoxCorners}
    \cup {[x1 |-> -5, y1 |-> -3, x2 |-> -1, y2 |-> -1, cls |-> 7, conf |-> 3],
          [x1 |-> 1, y1 |-> 0, x2 |-> 3, y2 |-> 2, cls |-> 7, conf |-> 3]}

HeatSeverityConfigs ==
    { <<SEVERITY_SCORE_MAP, DEFAULT_SEVERITY_SCORE>>,
      <<("Acne" :> 0), 2>> }
HeatWeightings == {"confidence", "severity", "uniform"}
HeatAlphas == {Float(0), Rat(3, 10), HEATMAP_ALPHA, Float(1)}
\* <<spread_sigma, secondary_blur_ksize>>
HeatBlurs == {<<0, 0>>, <<GAUSSIAN_SPREAD_SIGMA, SECONDARY_BLUR_KERNEL_SIZE>>, <<0, 3>>}

HeatInit ==
    /\ ScoreAtRest /\ CallAtRest /\ CallsAtRest /\ RequestAtRest /\ DbAtRest
    /\ heat_out = <<>>
    /\ \E image \in HeatImages,
          detection_results \in
              {<<>>} \cup {AsResults(bs) : bs \in SeqsUpTo(HeatDetections, MaxHeatDet)},
          c \in HeatSeverityConfigs, weighting \in HeatWeightings,
          alpha \in HeatAlphas, blur \in HeatBlurs :
          heat_in = <<[image |-> image, detection_results |-> detection_results,
                       severity_map |-> c[1], default_s_i |-> c[2],
                       weighting |-> weighting, alpha |-> alpha,
                       spread_sigma |-> blur[1], secondary_blur_ksize |-> blur[2]]>>

\* heatmap_overlay, heatmap_norm = generate_spread_heatmap(...)
RenderHeatmap ==
    /\ heat_out = <<>>
    /\ LET a == heat_in[1]
       IN  heat_out' = <<generate_spread_heatmap(a.image, a.detection_results,
                             model_names, a.severity_map, a.default_s_i, a.weighting,
                             a.alpha, a.spread_sigma, a.secondary_blur_ksize)>>
    /\ UNCHANGED <<score_vars, heat_in, call, calls, api_vars, db_vars>>

HeatNext == RenderHeatmap

HeatSpec == HeatInit /\ [][HeatNext]_vars

\* ----------------------------------------- analyze_skin_image, the whole call
\* A call is a record of the arguments, of what the environment holds for it
\* (whether the two files exist, what cv2.imread decodes, what the detector
\* returns, the exception a step raises) and of the locals of the function.
\* An absent value (None) is <<>>, a present value v is <<v>>.
MaxCallDet == 2

\* A fault names the block that raises, the exception, and for the label loop
\* the number of labels appended before the raise.
NoFault == [at |-> "none", class |-> "none", text |-> "", after |-> 0]

\* A message: its fixed text and the path or exception description it embeds.
Message(text, about) == [text |-> text, about |-> about]

\* results = {...} at the top of analyze_skin_image
FreshResults(range) ==
    [success |-> FALSE, message |-> Message("Analysis not started.", ""),
     severity_score |-> Float(range[1]), percentage_area |-> Float(0),
     average_intensity |-> Float(0), lesion_count |-> 0,
     original_image_bgr |-> <<>>, heatmap_overlay_bgr |-> <<>>,
     detections |-> <<>>, model_classes |-> <<>>]

NewCall(a) ==
    [args |-> a, pc |-> "validate", results |-> FreshResults(a.score_range),
     image_bgr |-> <<>>, predict_results |-> <<>>,
     detector_invoked |-> FALSE, steps |-> <<>>, propagated |-> FALSE]

Return(c, res) == [c EXCEPT !.pc = "returned", !.results = res]

\* Mutant: the handler of Exception is missing.
HandleFileAndImportOnly(c, e) ==
    IF e.class \in {"FileNotFoundError", "IOError"}
    THEN Return(c, [c.results EXCEPT !.message = Message("File Error: ", e.text)])
    ELSE IF e.class = "ImportError"
    THEN Return(c, [c.results EXCEPT
                       !.message = Message("Import Error: Missing library. ", e.text)])
    ELSE [c EXCEPT !.pc = "returned", !.propagated = TRUE]

\* The three except clauses, then return results.
Handle(c, e) ==
    IF e.class \in {"FileNotFoundError", "IOError"}
    THEN Return(c, [c.results EXCEPT !.message = Message("File Error: ", e.text)])
    ELSE IF e.class = "ImportError"
    THEN Return(c, [c.results EXCEPT
                       !.message = Message("Import Error: Missing library. ", e.text)])
    ELSE IF e.class \in {"RuntimeError", "ZeroDivisionError"}
    THEN Return(c, [c.results EXCEPT
                       !.message = Message("An unexpected error occurred: ", e.text)])
    ELSE [c EXCEPT !.pc = "returned", !.propagated = TRUE]

Raises(c, step) == c.args.fault.at = step
Completed(c, step, next) == [c EXCEPT !.pc = next, !.steps = Append(@, step)]

\* Mutant: only the model path is validated.
ValidateInputsModelOnly(c) ==
    IF ~c.args.model_exists
    THEN Return(c, [c.results EXCEPT
                       !.message = Message("Model file not found: ", c.args.model_path)])
    ELSE [c EXCEPT !.pc = "load"]

\* if not os.path.exists(model_path) ... if not os.path.exists(image_path) ...
ValidateInputs(c) ==
    IF ~c.args.model_exists
    THEN Return(c, [c.results EXCEPT
                       !.message = Message("Model file not found: ", c.args.model_path)])
    ELSE IF ~c.args.image_exists
    THEN Return(c, [c.results EXCEPT
                       !.message = Message("Image file not found: ", c.args.image_path)])
    ELSE [c EXCEPT !.pc = "load"]

\* model = YOLO(model_path); results['model_classes'] = model.names
LoadModel(c) ==
    IF Raises(c, "load") THEN Handle(c, c.args.fault)
    ELSE Completed([c EXCEPT !.results.model_classes = <<model_names>>], "load", "read")

\* image_bgr = cv2.imread(image_path); None when the file cannot be decoded
ReadImage(c) ==
    IF c.args.decoded = <<>>
    THEN Return(c, [c.results EXCEPT
                       !.message = Message("Could not read image file: ", c.args.image_path)])
    ELSE Completed([c EXCEPT !.image_bgr = c.args.decoded,
                             !.results.original_image_bgr = c.args.decoded],
                   "read", "predict")

\* predict_results = model.predict(source=image_path, conf=conf_threshold)
RunPrediction(c) ==
    LET invoked == [c EXCEPT !.detector_invoked = TRUE]
    IN  IF Raises(c, "predict") THEN Handle(invoked, c.args.fault)
        ELSE Completed([invoked EXCEPT !.predict_results = <<c.args.detected>>],
                       "predict", "score")

\* Mutant: the score tuple is computed but not stored before the heatmap block.
ScoreCallStoresNothing(c) ==
    IF Raises(c, "score") THEN Handle(c, c.args.fault)
    ELSE Completed(c, "score", "heatmap")

\* score, perc_a, avg_i, n_lesions = calculate_facial_severity_v2(...);
\* results.update({...})
ScoreCall(c) ==
    LET image == c.image_bgr[1]
        r == calculate_facial_severity_v2(c.predict_results[1], <<image.h, image.w>>,
                 model_names, c.args.severity_map, c.args.default_severity,
                 c.args.score_range, <<c.args.area_weight, c.args.intensity_weight>>)
    IN  IF Raises(c, "score") THEN Handle(c, c.args.fault)
        ELSE IF r.raised
        THEN Handle(c, [at |-> "score", class |-> "ZeroDivisionError",
                        text |-> "float division by zero", after |-> 0])
        ELSE Completed([c EXCEPT !.results.severity_score = r.score,
                                 !.results.percentage_area = r.percentage_area,
                                 !.results.average_intensity = r.average_intensity,
                                 !.results.lesion_count = r.lesion_count],
                       "score", "heatmap")

\* heatmap_overlay, _ = generate_spread_heatmap(image_bgr, predict_results,
\*     severity_map, default_severity, alpha=heatmap_alpha, spread_sigma=heatmap_sigma)
HeatmapCall(c) ==
    IF Raises(c, "heatmap") THEN Handle(c, c.args.fault)
    ELSE Completed([c EXCEPT !.results.heatmap_overlay_bgr =
                        <<generate_spread_heatmap(c.image_bgr[1], c.predict_results[1],
                              model_names, c.args.severity_map, c.args.default_severity,
                              HEATMAP_WEIGHTING, c.args.heatmap_alpha,
                              c.args.heatmap_sigma, SECONDARY_BLUR_KERNEL_SIZE).overlay>>],
                   "heatmap", "extract")

\* Mutant: only the boxes of positive width and height are labelled.
RawLabelsUsableOnly(predicted, names) ==
    IF Len(predicted) > 0 /\ Len(predicted[1].boxes) > 0
    THEN LET kept == SelectSeq(predicted[1].boxes,
                               LAMBDA b : ~Skipped(b))
         IN  Labels(kept, Len(kept), names)
    ELSE <<>>

\* The guarded loop over predict_results[0].boxes of the "Extract Detections" block.
RawLabels(predicted, names) ==
    IF Len(predicted) > 0 /\ Len(predicted[1].boxes) > 0
    THEN Labels(predicted[1].boxes, Len(predicted[1].boxes), names)
    ELSE <<>>

\* The "Extract Detections" block, then success = True and the final message.
ExtractCall(c) ==
    IF Raises(c, "extract")
    THEN LET all == RawLabels(c.predict_results[1], c.results.model_classes[1])
             n == IF c.args.fault.after < Len(all) THEN c.args.fault.after ELSE Len(all)
         IN  Handle([c EXCEPT !.results.detections = SubSeq(all, 1, n)], c.args.fault)
    ELSE Return(Completed(c, "extract", "returned"),
                [c.results EXCEPT
                    !.detections = RawLabels(c.predict_results[1], c.results.model_classes[1]),
                    !.success = TRUE,
                    !.message = Message("Analysis completed successfully.", "")])

\* What the detector may return: a box of positive size, one of zero width,
\* one of an unknown class and one of zero height.
CallDetections ==
    {[x1 |-> 0, y1 |-> 0, x2 |-> 2, y2 |-> 2, cls |-> 0, conf |-> 9],
     [x1 |-> 1, y1 |-> 0, x2 |-> 1, y2 |-> 2, cls |-> 0, conf |-> 9],
     [x1 |-> 0, y1 |-> 0, x2 |-> 1, y2 |-> 1, cls |-> 7, conf |-> 3],
     [x1 |-> 0, y1 |-> 1, x2 |-> 3, y2 |-> 1, cls |-> 2, conf |-> 3]}
CallDetected == {<<>>} \cup {AsResults(bs) : bs \in SeqsUpTo(CallDetections, MaxCallDet)}

\* The exceptions a step may raise, one for each except clause.
Exceptions ==
    {[class |-> "IOError", text |-> "disk read failed"],
     [class |-> "ImportError", text |-> "No module named 'torch'"],
     [class |-> "RuntimeError", text |-> "CUDA out of memory"]}
FaultySteps == {"load", "predict", "score", "heatmap", "extract"}
Faults ==
    {[at |-> st, class |-> e.class, text |-> e.text, after |-> 0] :
        st \in FaultySteps, e \in Exceptions}
    \cup {[at |-> "extract", class |-> e.class, text |-> e.text, after |-> 1] :
             e \in Exceptions}

CallArgs(model_exists, image_exists, decoded, fault, detected, config, range, alpha, sigma) ==
    [model_path |-> "best.pt", image_path |-> "face.jpg",
     model_exists |-> model_exists, image_exists |-> image_exists,
     decoded |-> decoded, fault |-> fault, detected |-> detected,
     severity_map |-> config[1], default_severity |-> config[2],
     heatmap_alpha |-> alpha, heatmap_sigma |-> sigma,
     area_weight |-> AREA_WEIGHT, intensity_weight |-> INTENSITY_WEIGHT,
     score_range |-> range]

\* Calls in which every file is there and no step raises.
HealthyCalls ==
    {CallArgs(TRUE, TRUE, <<image>>, NoFault, detected, config, range, alpha, sigma) :
        image \in HeatImages, detected \in CallDetected, config \in HeatSeverityConfigs,
        range \in ScoreRanges, alpha \in {HEATMAP_ALPHA, Float(1)},
        sigma \in {GAUSSIAN_SPREAD_SIGMA, 0}}

\* Calls that meet a missing file, an undecodable image or a raising step.
Troubles ==
    {<<FALSE, TRUE, <<HeatImage(2, 3)>>, NoFault>>,
     <<TRUE, FALSE, <<>>, NoFault>>,
     <<FALSE, FALSE, <<>>, NoFault>>,
     <<TRUE, TRUE, <<>>, NoFault>>}
    \cup {<<TRUE, TRUE, <<HeatImage(2, 3)>>, f>> : f \in Faults}
TroubledCalls ==
    {CallArgs(t[1], t[2], t[3], t[4], detected, <<SEVERITY_SCORE_MAP, DEFAULT_SEVERITY_SCORE>>,
              range, HEATMAP_ALPHA, GAUSSIAN_SPREAD_SIGMA) :
        t \in Troubles, detected \in {<<>>, AsResults(<<ScenarioBox>>)},
        range \in ScoreRanges}

CallInit ==
    /\ ScoreAtRest /\ HeatAtRest /\ CallsAtRest /\ RequestAtRest /\ DbAtRest
    /\ \E a \in HealthyCalls \cup TroubledCalls : call = NewCall(a)

At(step) == call.pc = step
Others == <<score_vars, heat_vars, calls, api_vars, db_vars>>

CallValidateInputs == At("validate") /\ call' = ValidateInputs(call) /\ UNCHANGED Others
CallLoadModel == At("load") /\ call' = LoadModel(call) /\ UNCHANGED Others
CallReadImage == At("read") /\ call' = ReadImage(call) /\ UNCHANGED Others
CallRunPrediction == At("predict") /\ call' = RunPrediction(call) /\ UNCHANGED Others
CallScore == At("score") /\ call' = ScoreCall(call) /\ UNCHANGED Others
CallHeatmap == At("heatmap") /\ call' = HeatmapCall(call) /\ UNCHANGED Others
CallExtract == At("extract") /\ call' = ExtractCall(call) /\ UNCHANGED Others

CallNext ==
    \/ CallValidateInputs
    \/ CallLoadModel
    \/ CallReadImage
    \/ CallRunPrediction
    \/ CallScore
    \/ CallHeatmap
    \/ CallExtract

CallSpec == CallInit /\ [][CallNext]_vars

\* ------------------------------------ analyze_skin_image, two calls at once
\* Each call has its own frame: results, image_bgr and predict_results are
\* locals, and the module-level defaults reach a call only as argument values.
\* The calls take their steps in any order; last and switches record the
\* caller that moved last and how often the turn passed to the other caller.
Callers == {1, 2}
MaxSwitches == 2

\* One step of a call, chosen by its position.
StepOf(c) ==
    CASE c.pc = "validate" -> ValidateInputs(c)
      [] c.pc = "load" -> LoadModel(c)
      [] c.pc = "read" -> ReadImage(c)
      [] c.pc = "predict" -> RunPrediction(c)
      [] c.pc = "score" -> ScoreCall(c)
      [] c.pc = "heatmap" -> HeatmapCall(c)
      [] c.pc = "extract" -> ExtractCall(c)
      [] OTHER -> c

RECURSIVE RunToReturn(_)
RunToReturn(c) == IF c.pc = "returned" THEN c ELSE RunToReturn(StepOf(c))

\* The result of a call that runs from start to end with nothing in between.
analyze_skin_image(a) == RunToReturn(NewCall(a)).results

\* Mutant: results is one dict at module level, written by every call.
AdvanceSharedResults(run, i, after) ==
    [j \in DOMAIN run |-> IF j = i THEN after ELSE [run[j] EXCEPT !.results = after.results]]

\* A step of call i replaces the frame of call i and nothing else.
Advance(run, i, after) == [run EXCEPT ![i] = after]

ConcurrentArgs ==
    LET two == AsResults(<<[x1 |-> 0, y1 |-> 0, x2 |-> 2, y2 |-> 2, cls |-> 0, conf |-> 9],
                           [x1 |-> 0, y1 |-> 0, x2 |-> 1, y2 |-> 1, cls |-> 7, conf |-> 3]>>)
        flat == AsResults(<<[x1 |-> 1, y1 |-> 0, x2 |-> 1, y2 |-> 2, cls |-> 0, conf |-> 9]>>)
        default == <<SEVERITY_SCORE_MAP, DEFAULT_SEVERITY_SCORE>>
        other == <<("Acne" :> 0), 2>>
    IN  {CallArgs(TRUE, TRUE, <<HeatImage(2, 3)>>, NoFault, two, default, SCORE_RANGE,
                  HEATMAP_ALPHA, GAUSSIAN_SPREAD_SIGMA),
         CallArgs(TRUE, TRUE, <<HeatImage(2, 3)>>, NoFault, two, other, <<10, 20>>,
                  HEATMAP_ALPHA, GAUSSIAN_SPREAD_SIGMA),
         CallArgs(TRUE, TRUE, <<HeatImage(1, 1)>>, NoFault, flat, default, <<10, 20>>,
                  Float(1), 0),
         CallArgs(FALSE, TRUE, <<HeatImage(2, 3)>>, NoFault, two, default, SCORE_RANGE,
                  HEATMAP_ALPHA, GAUSSIAN_SPREAD_SIGMA),
         CallArgs(TRUE, TRUE, <<>>, NoFault, two, other, SCORE_RANGE,
                  HEATMAP_ALPHA, GAUSSIAN_SPREAD_SIGMA),
         CallArgs(TRUE, TRUE, <<HeatImage(2, 3)>>,
                  [at |-> "heatmap", class |-> "RuntimeError", text |-> "CUDA out of memory",
                   after |-> 0],
                  two, default, SCORE_RANGE, HEATMAP_ALPHA, GAUSSIAN_SPREAD_SIGMA)}

ConcInit ==
    /\ ScoreAtRest /\ HeatAtRest /\ CallAtRest /\ RequestAtRest /\ DbAtRest
    /\ \E a \in ConcurrentArgs, b \in ConcurrentArgs :
          calls = [run |-> (1 :> NewCall(a) @@ 2 :> NewCall(b)), last |-> 0, switches |-> 0]

\* Caller i, standing at the given step, takes it.
Take(i, step, after) ==
    /\ calls.run[i].pc = step
    /\ calls' = [run |-> Advance(calls.run, i, after),
                 last |-> i,
                 switches |-> IF calls.last \in {0, i} \/ calls.switches = MaxSwitches
                              THEN calls.switches ELSE calls.switches + 1]
    /\ UNCHANGED <<score_vars, heat_vars, call, api_vars, db_vars>>

ConcValidateInputs == \E i \in Callers : Take(i, "validate", ValidateInputs(calls.run[i]))
ConcLoadModel == \E i \in Callers : Take(i, "load", LoadModel(calls.run[i]))
ConcReadImage == \E i \in Callers : Take(i, "read", ReadImage(calls.run[i]))
ConcRunPrediction == \E i \in Callers : Take(i, "predict", RunPrediction(calls.run[i]))
ConcScore == \E i \in Callers : Take(i, "score", ScoreCall(calls.run[i]))
ConcHeatmap == \E i \in Callers : Take(i, "heatmap", HeatmapCall(calls.run[i]))
ConcExtract == \E i \in Callers : Take(i, "extract", ExtractCall(calls.run[i]))

ConcNext ==
    \/ ConcValidateInputs
    \/ ConcLoadModel
    \/ ConcReadImage
    \/ ConcRunPrediction
    \/ ConcScore
    \/ ConcHeatmap
    \/ ConcExtract

ConcSpec == ConcInit /\ [][ConcNext]_vars

\* --------------------------------- detect_skin_conditions, the HTTP endpoint
\* The endpoint exists twice: in api.py ("api") and in routes/detection.py
\* ("routes", both sides of whose unresolved merge have the same body).  A
\* request is a record of what the client and the environment supply and of
\* the locals of the handler; pending is the HTTPException (or the unhandled
\* exception, answered with status 500) on its way out of the handler.
Endpoints == {"api", "routes"}
ALLOWED_FILE_TYPES == {"image/jpeg", "image/png", "image/bmp"}

\* Of the strings of the model, those in which "not found" occurs.
NotFoundStrings ==
    {"Model file not found: ", "Image file not found: ", "libcudnn.so not found"}
ContainsNotFound(message) ==
    message.text \in NotFoundStrings \/ message.about \in NotFoundStrings

ApiFaults ==
    {NoFault,
     [at |-> "predict", class |-> "RuntimeError", text |-> "CUDA out of memory", after |-> 0],
     [at |-> "predict", class |-> "RuntimeError", text |-> "libcudnn.so not found",
      after |-> 0]}

RequestArgs ==
    [endpoint : Endpoints, content_type : {"image/png", "text/plain"},
     upload : {"image", "garbage", "empty"}, read_raises : BOOLEAN,
     remove_raises : BOOLEAN, model_exists : BOOLEAN, fault : ApiFaults]

NewRequest(a) ==
    [args |-> a, pc |-> "receive", temp_image_path |-> <<>>, temp_file |-> FALSE,
     created |-> FALSE, analysis_results |-> <<>>, pending |-> <<>>, response |-> <<>>]

HTTPError(status, detail) == [status |-> status, detail |-> detail]

\* The arguments analyze_skin_image gets from the endpoint: the temporary
\* file exists, and cv2.imread decodes it only if the upload was an image.
AnalysisArgs(a) ==
    CallArgs(a.model_exists, TRUE,
             IF a.upload = "image" THEN <<HeatImage(2, 3)>> ELSE <<>>,
             a.fault,
             AsResults(<<[x1 |-> 0, y1 |-> 0, x2 |-> 2, y2 |-> 2, cls |-> 0, conf |-> 9]>>),
             <<SEVERITY_SCORE_MAP, DEFAULT_SEVERITY_SCORE>>, SCORE_RANGE,
             HEATMAP_ALPHA, GAUSSIAN_SPREAD_SIGMA)

\* The content-type test, and in routes/detection.py the model file test.
Receive(r) ==
    IF r.args.content_type \notin ALLOWED_FILE_TYPES
    THEN [r EXCEPT !.pc = "done",
                   !.response = <<HTTPError(IF r.args.endpoint = "api" THEN 400 ELSE 415,
                                            "Invalid file type")>>]
    ELSE IF r.args.endpoint = "routes" /\ ~r.args.model_exists
    THEN [r EXCEPT !.pc = "done",
                   !.response = <<HTTPError(503, "Model file is currently unavailable.")>>]
    ELSE [r EXCEPT !.pc = "store"]

\* with tempfile.NamedTemporaryFile(delete=False, ...): read, write, and only
\* then temp_image_path = temp_file.name
StoreUpload(r) ==
    LET made == [r EXCEPT !.temp_file = TRUE, !.created = TRUE]
    IN  IF r.args.read_raises
        THEN [made EXCEPT !.pc = "finally",
                          !.pending = <<HTTPError(500, IF r.args.endpoint = "api"
                                                       THEN "Error processing image: "
                                                       ELSE "Analysis error: ")>>]
        ELSE IF r.args.endpoint = "routes" /\ r.args.upload = "empty"
        THEN [made EXCEPT !.pc = "finally",
                          !.pending = <<HTTPError(500, "Analysis error: ")>>]
        ELSE [made EXCEPT !.pc = "analyze", !.temp_image_path = <<"tmp">>]

\* analysis_results = analyze_skin_image(model_path=..., image_path=temp_image_path);
\* routes/detection.py raises AnalysisError on a failure result inside the try.
Analyze(r) ==
    LET res == analyze_skin_image(AnalysisArgs(r.args))
    IN  [r EXCEPT !.pc = "finally",
                  !.analysis_results = <<res>>,
                  !.pending = IF r.args.endpoint = "routes" /\ ~res.success
                              THEN <<HTTPError(500, "Analysis error: ")>>
                              ELSE <<>>]

\* finally: os.remove(temp_image_path) if the path was assigned and exists.
\* An OSError leaves api.py unhandled and is swallowed in routes/detection.py.
Cleanup(r) ==
    IF r.temp_image_path # <<>> /\ r.temp_file
    THEN IF r.args.remove_raises
         THEN [r EXCEPT !.pc = "respond",
                        !.pending = IF r.args.endpoint = "api"
                                    THEN <<HTTPError(500, "Internal Server Error")>>
                                    ELSE @]
         ELSE [r EXCEPT !.pc = "respond", !.temp_file = FALSE]
    ELSE [r EXCEPT !.pc = "respond"]

\* The status api.py gives to a failure result.
StatusOfFailure(message) == IF ContainsNotFound(message) THEN 400 ELSE 500

\* The exception on its way out, or the response built from the results.
Respond(r) ==
    IF r.pending # <<>> THEN [r EXCEPT !.pc = "done", !.response = r.pending]
    ELSE IF ~r.analysis_results[1].success
    THEN [r EXCEPT !.pc = "done",
                   !.response = <<HTTPError(StatusOfFailure(r.analysis_results[1].message),
                                            r.analysis_results[1].message.text)>>]
    ELSE [r EXCEPT !.pc = "done",
                   !.response = <<HTTPError(200, r.analysis_results[1].message.text)>>]

ApiInit ==
    /\ ScoreAtRest /\ HeatAtRest /\ CallAtRest /\ CallsAtRest /\ DbAtRest
    /\ \E a \in RequestArgs : request = NewRequest(a)

ApiFrame == UNCHANGED <<score_vars, heat_vars, call, calls, db_vars>>

ApiReceive == request.pc = "receive" /\ request' = Receive(request) /\ ApiFrame
ApiStoreUpload == request.pc = "store" /\ request' = StoreUpload(request) /\ ApiFrame
ApiAnalyze == request.pc = "analyze" /\ request' = Analyze(request) /\ ApiFrame
ApiCleanup == request.pc = "finally" /\ request' = Cleanup(request) /\ ApiFrame
ApiRespond == request.pc = "respond" /\ request' = Respond(request) /\ ApiFrame

ApiNext ==
    \/ ApiReceive
    \/ ApiStoreUpload
    \/ ApiAnalyze
    \/ ApiCleanup
    \/ ApiRespond

ApiSpec == ApiInit /\ [][ApiNext]_vars

\* ---------------------------------------------------------------------------
\* The profile store (db/user_profile_db.py)
\* ---------------------------------------------------------------------------

\* Python values handed to the store.  A value carries its type, its text
\* (strings) and its magnitude in tenths (numbers); NaN is the float whose
\* text is "nan".
PyNone == [t |-> "NoneType", s |-> "", n |-> 0]
PyStr(text) == [t |-> "str", s |-> text, n |-> 0]
PyInt(i) == [t |-> "int", s |-> "", n |-> 10 * i]
PyFloat(tenths) == [t |-> "float", s |-> "", n |-> tenths]
PyNaN == [t |-> "float", s |-> "nan", n |-> 0]
PyList == [t |-> "list", s |-> "", n |-> 0]

IsNumber(v) == v.t \in {"int", "float"}
IsNaN(v) == v.t = "float" /\ v.s = "nan"

\* Python's == on these values: numbers compare by magnitude across int and
\* float, NaN equals nothing, everything else compares within its type.
PyEq(a, b) ==
    IF IsNumber(a) /\ IsNumber(b)
    THEN ~IsNaN(a) /\ ~IsNaN(b) /\ a.n = b.n
    ELSE a = b

\* The decimal literals among the strings of the input domain, in tenths.
NumberLiteral(text) ==
    CASE text = "180" -> <<1800>>
      [] text = "-5" -> <<-50>>
      [] OTHER -> <<>>

\* float(value): the float, or the exception class it raises.
FloatOf(v) ==
    CASE IsNumber(v) -> [raises |-> "", value |-> [v EXCEPT !.t = "float"]]
      [] v.t = "str" ->
            IF NumberLiteral(v.s) # <<>>
            THEN [raises |-> "", value |-> PyFloat(NumberLiteral(v.s)[1])]
            ELSE [raises |-> "ValueError", value |-> PyNone]
      [] OTHER -> [raises |-> "TypeError", value |-> PyNone]

\* The date strings of the input domain split at "-": each part is its
\* number of digits and its value.
DateParts(text) ==
    CASE text = "2000-01-01" -> << <<4, 2000>>, <<2, 1>>, <<2, 1>> >>
      [] text = "2000-1-1" -> << <<4, 2000>>, <<1, 1>>, <<1, 1>> >>
      [] text = "2001-02-29" -> << <<4, 2001>>, <<2, 2>>, <<2, 29>> >>
      [] text = "01-01-2000" -> << <<2, 1>>, <<2, 1>>, <<4, 2000>> >>
      [] OTHER -> << >>

IsLeap(y) == (y % 4 = 0 /\ y % 100 # 0) \/ y % 400 = 0

DaysIn(y, m) ==
    CASE m = 2 -> IF IsLeap(y) THEN 29 ELSE 28
      [] m \in {4, 6, 9, 11} -> 30
      [] OTHER -> 31

\* datetime.strptime(dob, "%Y-%m-%d") succeeds: %Y takes exactly four digits,
\* %m and %d one or two, and the date has to exist.
StrptimeYmd(text) ==
    LET p == DateParts(text) IN
    /\ Len(p) = 3
    /\ p[1][1] = 4
    /\ p[2][1] \in {1, 2} /\ p[2][2] \in 1..12
    /\ p[3][1] \in {1, 2} /\ p[3][2] \in 1..DaysIn(p[1][2], p[2][2])

NonEmptyStr(v) == v.t = "str" /\ v.s # ""

\* The check of one of height and weight: "" when it passes.
ValidateMeasure(v, field) ==
    IF v = PyNone THEN ""
    ELSE LET f == FloatOf(v) IN
         CASE f.raises # "" -> field \o " must be a positive number"
           [] ~IsNaN(f.value) /\ f.value.n <= 0 -> field \o " must be positive"
           [] OTHER -> ""

\* validate_profile_data: the message of the ValidationError it raises, or ""
\* when the profile passes.
validate_profile_data(a) ==
    CASE ~NonEmptyStr(a.user_id) -> "user_id must be a non-empty string"
      [] ~NonEmptyStr(a.name) -> "name must be a non-empty string"
      [] ~NonEmptyStr(a.dob) -> "dob must be a non-empty string"
      [] ~StrptimeYmd(a.dob.s) -> "dob must be in YYYY-MM-DD format"
      [] ValidateMeasure(a.height, "height") # "" -> ValidateMeasure(a.height, "height")
      [] ValidateMeasure(a.weight, "weight") # "" -> ValidateMeasure(a.weight, "weight")
      [] a.gender # PyNone /\ a.gender.t # "str" -> "gender must be a string"
      [] OTHER -> ""

\* The text SQLite stores for the integers of the input domain.
DecimalText(tenths) ==
    CASE tenths = 50 -> "5"
      [] tenths = 1230 -> "123"
      [] OTHER -> "1"

\* A value bound to a TEXT column: numbers are stored as their text.
TextAffinity(v) == IF IsNumber(v) THEN PyStr(DecimalText(v.n)) ELSE v

\* A value bound to a REAL column: an integer becomes a float, a string that
\* is a number literal becomes that float, and NaN is stored as NULL.
RealAffinity(v) ==
    CASE IsNaN(v) -> PyNone
      [] IsNumber(v) -> PyFloat(v.n)
      [] v.t = "str" /\ NumberLiteral(v.s) # <<>> -> PyFloat(NumberLiteral(v.s)[1])
      [] OTHER -> v

\* The row of user_profiles that holds a profile.
StoredRow(a) ==
    [user_id |-> TextAffinity(a.user_id), name |-> TextAffinity(a.name),
     dob |-> TextAffinity(a.dob), height |-> RealAffinity(a.height),
     weight |-> RealAffinity(a.weight), gender |-> TextAffinity(a.gender)]

UpsertAppends(table, row) == table \cup {row}

\* INSERT ... ON CONFLICT(user_id) DO UPDATE on the primary key user_id.
Upsert(table, row) == {r \in table : r.user_id # row.user_id} \cup {row}

ProfileUsers == {"u1", "u2"}

NoProfile == [user_id |-> PyNone, name |-> PyNone, dob |-> PyNone, height |-> PyNone, weight |-> PyNone, gender |-> PyNone]

ProfileOp(kind, a, exc, result, before) == [kind |-> kind, args |-> a, raised |-> exc, result |-> result, before |-> before]

\* init_db: CREATE TABLE IF NOT EXISTS user_profiles.
init_db(db) ==
    [db EXCEPT !.exists = TRUE,
               !.op = ProfileOp("init_db", NoProfile, "", <<>>, db.table)]

\* save_profile_to_db: validation, then the upsert.  saved remembers, for each
\* user, the arguments of the last save that returned.
save_profile_to_db(db, a) ==
    CASE validate_profile_data(a) # "" ->
            [db EXCEPT !.op = ProfileOp("save", a, "ValidationError", <<>>, db.table)]
      [] ~db.exists ->
            [db EXCEPT !.op = ProfileOp("save", a, "OperationalError", <<>>, db.table)]
      [] OTHER ->
            [db EXCEPT !.table = Upsert(db.table, StoredRow(a)),
                       !.saved = [u \in ProfileUsers |-> IF u = a.user_id.s THEN <<a>> ELSE db.saved[u]],
                       !.op = ProfileOp("save", a, "", <<>>, db.table)]

FetchOneAnyRow(table, user_id) == table

\* SELECT ... WHERE user_id = ?, fetchone(): a row of the user, if any.
FetchOne(table, user_id) == {r \in table : r.user_id = user_id}

\* get_profile_from_db: the dictionary of the user's row, or None.  row is
\* the row fetchone() picks when there is one.
get_profile_from_db(db, user_id, row) ==
    LET a == [NoProfile EXCEPT !.user_id = user_id] IN
    CASE ~NonEmptyStr(user_id) ->
            [db EXCEPT !.op = ProfileOp("get", a, "ValidationError", <<>>, db.table)]
      [] ~db.exists ->
            [db EXCEPT !.op = ProfileOp("get", a, "OperationalError", <<>>, db.table)]
      [] FetchOne(db.table, user_id) = {} ->
            [db EXCEPT !.op = ProfileOp("get", a, "", <<>>, db.table)]
      [] OTHER ->
            [db EXCEPT !.op = ProfileOp("get", a, "", <<row>>, db.table)]

\* The profiles handed to save_profile_to_db: a complete profile of each
\* user, and every profile that differs from it in one field.
BaseProfile(u) ==
    [user_id |-> PyStr(u), name |-> PyStr("Ada"), dob |-> PyStr("2000-01-01"),
     height |-> PyFloat(1755), weight |-> PyFloat(705), gender |-> PyStr("F")]

UserIds == {PyStr(u) : u \in ProfileUsers} \cup {PyStr(""), PyInt(5)}
Names == {PyStr("Ada"), PyStr("Bob"), PyStr(""), PyInt(123)}
Dobs == {PyStr("2000-01-01"), PyStr("2000-1-1"), PyStr("2001-02-29"), PyStr("01-01-2000"), PyStr(""), PyNone}
Measures == {PyNone, PyFloat(1755), PyFloat(705), PyInt(180), PyFloat(0), PyFloat(-700), PyStr("180"), PyStr("-5"), PyStr("not_a_number"), PyNaN, PyList}
Genders == {PyNone, PyStr("F"), PyStr("M"), PyInt(1)}

ProfileArgs ==
    UNION {
        {[BaseProfile(u) EXCEPT !.user_id = v] : v \in UserIds}
        \cup {[BaseProfile(u) EXCEPT !.name = v] : v \in Names}
        \cup {[BaseProfile(u) EXCEPT !.dob = v] : v \in Dobs}
        \cup {[BaseProfile(u) EXCEPT !.height = v] : v \in Measures}
        \cup {[BaseProfile(u) EXCEPT !.weight = v] : v \in Measures}
        \cup {[BaseProfile(u) EXCEPT !.gender = v] : v \in Genders}
        \cup {[BaseProfile(u) EXCEPT !.height = PyNone, !.weight = PyNone, !.gender = PyNone]}
        : u \in ProfileUsers}

ProfileInit ==
    /\ ScoreAtRest /\ HeatAtRest /\ CallAtRest /\ CallsAtRest /\ RequestAtRest
    /\ ts_db = <<>>
    /\ profile_db = [exists |-> FALSE, table |-> {},
                     saved |-> [u \in ProfileUsers |-> <<>>],
                     op |-> ProfileOp("none", NoProfile, "", <<>>, {})]

ProfileFrame == UNCHANGED <<score_vars, heat_vars, call, calls, api_vars, ts_db>>

InitDb == profile_db' = init_db(profile_db) /\ ProfileFrame

SaveProfile == \E a \in ProfileArgs : profile_db' = save_profile_to_db(profile_db, a) /\ ProfileFrame

GetProfile ==
    \E user_id \in UserIds :
        \E row \in FetchOne(profile_db.table, user_id) \cup {NoProfile} :
            /\ FetchOne(profile_db.table, user_id) # {} => row # NoProfile
            /\ profile_db' = get_profile_from_db(profile_db, user_id, row)
            /\ ProfileFrame

ProfileNext == InitDb \/ SaveProfile \/ GetProfile

ProfileSpec == ProfileInit /\ [][ProfileNext]_vars

\* ---------------------------------------------------------------------------
\* The time-series store (db/create_db.py, api/routes/timeseries.py)
\* ---------------------------------------------------------------------------

\* Python dictionaries are functions from their keys to values.
Put(dict, key, value) == [k \in DOMAIN dict \cup {key} |-> IF k = key THEN value ELSE dict[k]]

PyBool(b) == [t |-> "bool", s |-> "", n |-> IF b THEN 10 ELSE 0]

\* bool(value)
BoolOf(v) ==
    CASE v.t = "str" -> PyBool(v.s # "")
      [] v.t = "NoneType" -> PyBool(FALSE)
      [] OTHER -> PyBool(v.n # 0 \/ IsNaN(v))

REAL_COLUMNS == {"acne_severity_score", "diet_sugar", "diet_dairy", "diet_alcohol", "sleep_hours", "latitude", "longitude", "humidity", "pollution", "stress", "sunlight_exposure"}
TEXT_COLUMNS == {"id", "user_id", "timestamp", "sleep_quality", "products_used"}
INTEGER_COLUMNS == {"menstrual_cycle_active", "menstrual_cycle_day"}
Columns == REAL_COLUMNS \cup TEXT_COLUMNS \cup INTEGER_COLUMNS
NOT_NULL_COLUMNS == {"user_id", "timestamp"}
required_fields == {"user_id", "timestamp"}

\* A value bound to an INTEGER column: a number without a fraction is stored
\* as an integer, NaN as NULL.
IntegerAffinity(v) ==
    CASE IsNaN(v) -> PyNone
      [] IsNumber(v) /\ v.n % 10 = 0 -> [v EXCEPT !.t = "int"]
      [] OTHER -> RealAffinity(v)

Affinity(column, v) ==
    CASE column \in REAL_COLUMNS -> RealAffinity(v)
      [] column \in INTEGER_COLUMNS -> IntegerAffinity(v)
      [] OTHER -> TextAffinity(v)

defaultsNone(key) == PyNone

\* The defaults of save_timeseries, which are also the column DEFAULTs.
defaults(key) ==
    CASE key = "sleep_quality" -> PyStr("unknown")
      [] key = "products_used" -> PyStr("")
      [] OTHER -> PyInt(0)

OptionalFields == Columns \ {"id", "user_id", "timestamp"}

\* The value of a column the INSERT does not name.
ColumnDefault(column) ==
    IF column \in OptionalFields THEN Affinity(column, defaults(column)) ELSE PyNone

\* datetime.fromisoformat(text.replace('Z', '+00:00')).isoformat() on the
\* timestamps of the input domain; <<>> is ValueError.
IsoFormat(text) ==
    CASE text = "2024-01-02" -> <<"2024-01-02T00:00:00">>
      [] text = "2024-01-01T23:30:00Z" -> <<"2024-01-01T23:30:00+00:00">>
      [] text = "2024-01-02T00:00:00" -> <<"2024-01-02T00:00:00">>
      [] OTHER -> << >>

\* datetime.now().isoformat() at the time of the request.
Now == "2024-06-01T12:00:00.000001"

\* The position of a stored timestamp in SQLite's comparison of TEXT values.
TextOrder(text) ==
    CASE text = "2024-01-01T23:30:00+00:00" -> 1
      [] text = "2024-01-02T00:00:00" -> 2
      [] OTHER -> 3

\* INSERT INTO timeseries (columns) VALUES (values): the exception it raises
\* and the table afterwards.
Insert(table, values) ==
    LET row == [c \in Columns |-> IF c \in DOMAIN values THEN Affinity(c, values[c]) ELSE ColumnDefault(c)] IN
    CASE ~(DOMAIN values \subseteq Columns) -> [raises |-> "OperationalError", table |-> table]
      [] \E k \in DOMAIN values : values[k].t = "list" -> [raises |-> "InterfaceError", table |-> table]
      [] \E c \in NOT_NULL_COLUMNS : row[c] = PyNone -> [raises |-> "IntegrityError", table |-> table]
      [] \E r \in table : r.id = row.id -> [raises |-> "IntegrityError", table |-> table]
      [] OTHER -> [raises |-> "", table |-> table \cup {row}]

TimeseriesOp(kind, a, status, exc, result, before) == [kind |-> kind, args |-> a, status |-> status, raised |-> exc, result |-> result, before |-> before]

NoEntry == ("user_id" :> PyNone)

\* The sample row of create_profiles_table.
sample_data == [user_id |-> "user_1", name |-> "Amine Maazizi", dob |-> "2025-05-03", height |-> 180, weight |-> 90, gender |-> "Male"]

\* create_timeseries_table: CREATE TABLE IF NOT EXISTS timeseries.
create_timeseries_table(db) == [db EXCEPT !.timeseries_table = TRUE]

\* create_profiles_table: CREATE TABLE IF NOT EXISTS profiles, then the
\* insert of the sample row, whose IntegrityError is swallowed.
create_profiles_table(db) ==
    [db EXCEPT !.profiles_table = TRUE,
               !.profiles = IF \E r \in db.profiles : r.user_id = sample_data.user_id
                            THEN db.profiles
                            ELSE db.profiles \cup {sample_data}]

setup_databases(db) ==
    [create_profiles_table(create_timeseries_table(db))
        EXCEPT !.op = TimeseriesOp("setup_databases", NoEntry, 0, "", <<>>, db.timeseries)]

\* save_timeseries_data: TRUE and the new table, or FALSE.
save_timeseries_data(db, entry, uuid) ==
    LET created == create_timeseries_table(db)
        e1 == IF "id" \in DOMAIN entry THEN entry ELSE Put(entry, "id", PyStr(uuid))
        stamp == e1["timestamp"]
        e2 == IF "timestamp" \in DOMAIN e1 /\ stamp.t = "str"
              THEN Put(e1, "timestamp",
                       PyStr(IF IsoFormat(stamp.s) # <<>> THEN IsoFormat(stamp.s)[1] ELSE Now))
              ELSE e1
        done == Insert(created.timeseries, e2)
    IN  IF "timestamp" \in DOMAIN e1 /\ stamp.t # "str"
        THEN [ok |-> FALSE, db |-> created]
        ELSE [ok |-> done.raises = "", db |-> [created EXCEPT !.timeseries = done.table]]

\* The entry after save_timeseries has put the id and the defaults into it.
WithDefaults(entry, uuid) ==
    LET e1 == Put(entry, "id", PyStr(uuid)) IN
    [k \in DOMAIN e1 \cup OptionalFields |->
        IF k \in OptionalFields /\ (k \notin DOMAIN e1 \/ e1[k] = PyNone)
        THEN defaults(k)
        ELSE e1[k]]

\* POST /timeseries/ (save_timeseries): the status of the response.
save_timeseries(db, entry, uuid) ==
    IF \E field \in required_fields : field \notin DOMAIN entry
    THEN [db EXCEPT !.op = TimeseriesOp("post", entry, 400, "", <<>>, db.timeseries)]
    ELSE LET saved == save_timeseries_data(db, WithDefaults(entry, uuid), uuid) IN
         [saved.db EXCEPT !.op = TimeseriesOp("post", entry, IF saved.ok THEN 200 ELSE 500, "", <<>>, db.timeseries)]

ResultKeys == Columns \ {"user_id"}

\* The dictionary get_latest_timeseries_data builds from a row.
EntryOf(row) ==
    [k \in ResultKeys |->
        IF k = "menstrual_cycle_active" THEN BoolOf(row[k]) ELSE row[k]]

\* SELECT ... FROM timeseries WHERE user_id = ?
Select(table, user_id) == {r \in table : r.user_id = user_id}

OrderingsUnsorted(rows) == {order \in [1..Cardinality(rows) -> rows] : \A i, j \in 1..Cardinality(rows) : i # j => order[i] # order[j]}

\* ORDER BY timestamp ASC: the orders in which fetchall() may return the rows;
\* rows with equal timestamps come in any order.
Orderings(rows) ==
    {order \in [1..Cardinality(rows) -> rows] :
        /\ \A i, j \in 1..Cardinality(rows) : i # j => order[i] # order[j]
        /\ \A i, j \in 1..Cardinality(rows) :
              i < j => TextOrder(order[i].timestamp.s) <= TextOrder(order[j].timestamp.s)}

\* get_latest_timeseries_data: the list of the user's entries; a missing
\* database file is reported as RuntimeError.
get_latest_timeseries_data(db, user_id, order) ==
    LET a == ("user_id" :> user_id) IN
    IF ~db.timeseries_table
    THEN [db EXCEPT !.op = TimeseriesOp("get", a, 0, "RuntimeError", <<>>, db.timeseries)]
    ELSE [db EXCEPT !.op = TimeseriesOp("get", a, 0, "", [i \in DOMAIN order |-> EntryOf(order[i])], db.timeseries)]

\* The entries posted: a complete one, and entries that differ from it in
\* one key.
BaseEntry == ("user_id" :> PyStr("u1")) @@ ("timestamp" :> PyStr("2024-01-02"))

Uuids == {"id1", "id2", "id3"}

Entries ==
    {BaseEntry,
     Put(BaseEntry, "user_id", PyStr("u2")),
     Put(BaseEntry, "user_id", PyNone),
     Put(BaseEntry, "timestamp", PyStr("2024-01-01T23:30:00Z")),
     Put(BaseEntry, "timestamp", PyStr("yesterday")),
     Put(BaseEntry, "timestamp", PyInt(5)),
     Put(BaseEntry, "timestamp", PyNone),
     Put(BaseEntry, "id", PyStr("id1")),
     Put(BaseEntry, "note", PyStr("x")),
     Put(BaseEntry, "stress", PyList),
     Put(Put(BaseEntry, "acne_severity_score", PyNone), "sleep_quality", PyStr("good")),
     Put(Put(BaseEntry, "acne_severity_score", PyInt(5)), "menstrual_cycle_active", PyInt(1)),
     ("user_id" :> PyStr("u1")),
     ("timestamp" :> PyStr("2024-01-02")),
     ("stress" :> PyInt(5))}

TimeseriesUsers == {PyStr("u1"), PyStr("u2"), PyStr("u3")}

TimeseriesInit ==
    /\ ScoreAtRest /\ HeatAtRest /\ CallAtRest /\ CallsAtRest /\ RequestAtRest
    /\ profile_db = <<>>
    /\ ts_db = [timeseries_table |-> FALSE, timeseries |-> {},
                profiles_table |-> FALSE, profiles |-> {},
                op |-> TimeseriesOp("none", NoEntry, 0, "", <<>>, {})]

TimeseriesFrame == UNCHANGED <<score_vars, heat_vars, call, calls, api_vars, profile_db>>

SetupDatabases == ts_db' = setup_databases(ts_db) /\ TimeseriesFrame

PostTimeseries ==
    \E entry \in Entries, uuid \in Uuids :
        ts_db' = save_timeseries(ts_db, entry, uuid) /\ TimeseriesFrame

GetLatestTimeseries ==
    \E user_id \in TimeseriesUsers :
        \E order \in Orderings(Select(ts_db.timeseries, user_id)) :
            ts_db' = get_latest_timeseries_data(ts_db, user_id, order) /\ TimeseriesFrame

TimeseriesNext == SetupDatabases \/ PostTimeseries \/ GetLatestTimeseries

TimeseriesSpec == TimeseriesInit /\ [][TimeseriesNext]_vars

\* ------------------------------------------------------------ the claims
\* calculate_facial_severity_v2 has returned and its tuple is in results.
Returned == pc \in {"scored", "done"}

Lo == Float(score_range[1])
Hi == Float(score_range[2])
ImageArea == image_shape[1] * image_shape[2]

\* A usable detection has strictly positive width and height.
Usable(box) == box.x2 > box.x1 /\ box.y2 > box.y1
UsableIdx(bs) == {i \in 1..Len(bs) : Usable(bs[i])}

RECURSIVE SumF(_, _)
SumF(f, S) ==
    IF S = {} THEN 0
    ELSE LET x == CHOOSE y \in S : TRUE IN f[x] + SumF(f, S \ {x})

AreaOf(box) == (box.x2 - box.x1) * (box.y2 - box.y1)
WeightFor(box, map, default) ==
    LET label == IF box.cls \in DOMAIN model_names THEN model_names[box.cls]
                 ELSE FormatClass(box.cls)
    IN  IF label \in DOMAIN map THEN map[label] ELSE default

SumArea(bs) == SumF([i \in 1..Len(bs) |-> AreaOf(bs[i])], UsableIdx(bs))
SumSeverity(bs, map, default) ==
    SumF([i \in 1..Len(bs) |-> WeightFor(bs[i], map, default)], UsableIdx(bs))
\* sum_term x image area: the sum of severity_i x area_i over the usable boxes
WeightedArea(bs, map, default) ==
    SumF([i \in 1..Len(bs) |-> WeightFor(bs[i], map, default) * AreaOf(bs[i])],
         UsableIdx(bs))

RemoveAt(s, i) == SubSeq(s, 1, i - 1) \o SubSeq(s, i + 1, Len(s))

IsDegenerate ==
    /\ results.severity_score = Lo
    /\ results.percentage_area = Float(0)
    /\ results.average_intensity = Float(0)
    /\ results.lesion_count = 0

ScenarioA ==
    /\ image_shape = <<1000, 1000>>
    /\ boxes = <<ScenarioBox>>
    /\ WeightFor(ScenarioBox, severity_map, default_severity) = 3
    /\ score_range = <<0, 100>>

\* C1: for lower <= upper the score lies in [lower, upper], on the early
\* returns as well as on the computed path, and the call does not raise.
C1_ScoreWithinRange ==
    score_range[1] <= score_range[2] =>
        /\ pc # "failed"
        /\ RLe(Lo, results.severity_score)
        /\ RLe(results.severity_score, Hi)

\* The computed path reaches the upper bound of the range.
C1_Witness ==
    /\ pc = "scored"
    /\ results.lesion_count > 0
    /\ results.severity_score = Hi

\* C2: an empty detection list or an image area <= 0 gives exactly
\* (lower, 0.0, 0.0, 0), without raising.
C2_DegenerateOnEmptyOrNoArea ==
    (Len(predict_results) = 0 \/ Len(boxes) = 0 \/ ImageArea <= 0) /\ pc # "predicted" =>
        Returned /\ IsDegenerate

\* An image of area 0 with a usable box has been scored.
C2_Witness ==
    /\ pc = "scored"
    /\ ImageArea = 0
    /\ UsableIdx(boxes) # {}
    /\ IsDegenerate

\* C3: a non-empty list in which every box has width <= 0 or height <= 0
\* gives the same tuple as the empty list.
C3_DegenerateWhenNoneUsable ==
    /\ Len(boxes) > 0
    /\ \A i \in 1..Len(boxes) :
           boxes[i].x2 - boxes[i].x1 <= 0 \/ boxes[i].y2 - boxes[i].y1 <= 0
    /\ pc # "predicted"
    => Returned /\ IsDegenerate

\* Two unusable boxes on an image of positive area have been scored.
C3_Witness ==
    /\ pc = "scored"
    /\ ImageArea > 0
    /\ Len(boxes) >= 2
    /\ UsableIdx(boxes) = {}
    /\ IsDegenerate

\* C4: a detection with x2 <= x1 or y2 <= y1, of any class and confidence and
\* at any position, leaves percentage_area, average_intensity and
\* lesion_count as they are for the list without it.
C4_SkipInvalid ==
    Returned =>
        \A i \in 1..Len(boxes) :
            (boxes[i].x2 <= boxes[i].x1 \/ boxes[i].y2 <= boxes[i].y1) =>
                LET r == calculate_facial_severity_v2(AsResults(RemoveAt(boxes, i)), image_shape,
                             model_names, severity_map, default_severity,
                             score_range, weights)
                IN  /\ ~r.raised
                    /\ r.percentage_area = results.percentage_area
                    /\ r.average_intensity = results.average_intensity
                    /\ r.lesion_count = results.lesion_count

\* A box of positive width and negative height next to a usable box.
C4_Witness ==
    /\ pc = "scored"
    /\ ImageArea > 0
    /\ \E i, j \in 1..Len(boxes) :
           /\ boxes[i].x2 > boxes[i].x1 /\ boxes[i].y2 < boxes[i].y1
           /\ Usable(boxes[j])
    /\ results.lesion_count = 1

\* The severity weights of the data model: positive integers.
PositiveWeights ==
    /\ default_severity > 0
    /\ \A k \in DOMAIN severity_map : severity_map[k] > 0

RaisedConfigs ==
    LET labels == {ClassName(model_names, boxes[i].cls) : i \in UsableIdx(boxes)}
    IN  {<<[severity_map EXCEPT ![k] = @ + d], default_severity>> :
            k \in labels \cap DOMAIN severity_map, d \in {1, 4}}
        \cup
        {<<severity_map, default_severity + d>> :
            d \in {e \in {1, 4} : labels \ DOMAIN severity_map # {}}}

ScoreUnder(config) ==
    calculate_facial_severity_v2(predict_results, image_shape, model_names, config[1], config[2],
                                 score_range, weights)

C7_PercentageArea ==
    Returned /\ ImageArea > 0 =>
        /\ results.percentage_area = Rat(100 * SumArea(boxes), ImageArea)
        /\ RLe(Float(0), results.percentage_area)

\* The 1x1 box lies inside the 3x3 box: 10/16 of the image, not 9/16.
C7_Witness ==
    /\ pc = "scored"
    /\ image_shape = <<4, 4>>
    /\ Len(boxes) = 2
    /\ <<boxes[1].x1, boxes[1].y1, boxes[1].x2, boxes[1].y2>> = <<0, 0, 1, 1>>
    /\ <<boxes[2].x1, boxes[2].y1, boxes[2].x2, boxes[2].y2>> = <<0, 0, 3, 3>>
    /\ results.percentage_area = Rat(1000, 16)

\* C8: average_intensity is the sum of the weights of the usable detections
\* divided by their number, and no division by a count of 0 is executed.
C8_AverageIntensity ==
    /\ pc # "failed"
    /\ Returned /\ ImageArea > 0 /\ UsableIdx(boxes) # {} =>
           results.average_intensity
               = Rat(SumSeverity(boxes, severity_map, default_severity),
                     Cardinality(UsableIdx(boxes)))

\* One usable box of weight 5 and an unusable one: the average is 5, not 5/2.
C8_Witness ==
    /\ pc = "scored"
    /\ ImageArea > 0
    /\ Len(boxes) = 2
    /\ Cardinality(UsableIdx(boxes)) = 1
    /\ results.average_intensity = Float(5)

\* C9: a class id absent from the class table is labelled "class_{id}", gets
\* default_severity unless the map holds that label, and is counted when its
\* box is usable.
C9_UnknownClass ==
    /\ Returned /\ ImageArea > 0 /\ UsableIdx(boxes) # {}
       /\ (\A i \in UsableIdx(boxes) : boxes[i].cls = 7)
       => /\ results.average_intensity =
                Float(IF "class_7" \in DOMAIN severity_map
                      THEN severity_map["class_7"] ELSE default_severity)
          /\ results.lesion_count = Cardinality(UsableIdx(boxes))
    /\ pc = "done" =>
           \A i \in 1..Len(boxes) :
               boxes[i].cls = 7 => results.detections[i].class_name = "class_7"

\* A usable box of class 7 scored with the default weight and listed.
C9_Witness ==
    /\ pc = "done"
    /\ ImageArea > 0
    /\ "class_7" \notin DOMAIN severity_map
    /\ \E i \in UsableIdx(boxes) : boxes[i].cls = 7
    /\ \A i \in UsableIdx(boxes) : boxes[i].cls = 7
    /\ results.average_intensity = Float(default_severity)
    /\ results.lesion_count >= 1

\* C10: lesion_count is between 0 and the number of raw detections.
C10_LesionCountBounded ==
    /\ results.lesion_count >= 0
    /\ results.lesion_count <= Len(boxes)

\* Some but not all raw detections were counted.
C10_Witness ==
    /\ Returned
    /\ results.lesion_count > 0
    /\ results.lesion_count < Len(boxes)


\* ------------------------------------ the claims on generate_spread_heatmap
Rendered == heat_out # <<>>
heat_args == heat_in[1]
heat_result == heat_out[1]

\* C11: called with an empty detection list, or with detections that hold
\* zero boxes, generate_spread_heatmap returns the input image unchanged and
\* an all-zero field of the image's height x width.
C11_EmptyDetectionsUnrendered ==
    (Rendered /\ heat_args.detection_results \in {<<>>, AsResults(<<>>)})
        => /\ heat_result.overlay = heat_args.image.px
           /\ DOMAIN heat_result.field =
                  (0 .. heat_args.image.h - 1) \X (0 .. heat_args.image.w - 1)
           /\ \A p \in DOMAIN heat_result.field : heat_result.field[p] = 0

C11_Witness ==
    /\ Rendered
    /\ heat_args.detection_results = AsResults(<<>>)
    /\ heat_args.image.h = 2 /\ heat_args.image.w = 3
    /\ heat_result.overlay[<<1, 2>>] = <<80, 135, 128>>

\* The weight of a raw detection in tenths, and the pixel its centre falls on:
\* the in-range index nearest to the truncated midpoint of the box.
TenthsWeight(box) ==
    IF heat_args.weighting = "confidence" THEN box.conf
    ELSE IF heat_args.weighting = "severity"
         THEN 10 * WeightFor(box, heat_args.severity_map, heat_args.default_s_i)
         ELSE 10
NearestIndex(m, size) ==
    CHOOSE c \in 0 .. size - 1 : \A d \in 0 .. size - 1 : Abs(c - m) <= Abs(d - m)
CentrePixel(box) ==
    <<NearestIndex((box.y1 + box.y2) \div 2, heat_args.image.h),
      NearestIndex((box.x1 + box.x2) \div 2, heat_args.image.w)>>
heat_boxes ==
    IF Len(heat_args.detection_results) = 0 THEN <<>>
    ELSE heat_args.detection_results[1].boxes
Surviving == {i \in 1 .. Len(heat_boxes) : TenthsWeight(heat_boxes[i]) > 0}
NoBlur == heat_args.spread_sigma = 0 /\ heat_args.secondary_blur_ksize = 0

\* First half of C13: the accumulation field holds at each pixel the sum of
\* the weights of the surviving detections centred on it.
C13_Accumulation ==
    Rendered =>
        \A p \in Pixels(heat_args.image.h, heat_args.image.w) :
            heat_result.raw[p] =
                Rat(SumF([i \in 1 .. Len(heat_boxes) |-> TenthsWeight(heat_boxes[i])],
                         {i \in Surviving : CentrePixel(heat_boxes[i]) = p}), 10)

\* Second half of C13: one surviving detection and no blur give a normalized
\* field of 255 at the box centre and 0 elsewhere.
SinglePeak ==
    (Rendered /\ NoBlur /\ Len(heat_boxes) = 1 /\ Surviving = {1})
        => \A p \in Pixels(heat_args.image.h, heat_args.image.w) :
               heat_result.field[p] = IF p = CentrePixel(heat_boxes[1]) THEN 255 ELSE 0

\* C13: before any blur the accumulation field holds at each pixel the sum of
\* the weights of the surviving detections whose clamped centre is that pixel
\* and 0 elsewhere; with spread_sigma = 0 and one detection the normalized
\* field has exactly one pixel at 255, at the box centre, and 0 elsewhere.
C13_Original == C13_Accumulation /\ SinglePeak

\* The second half does hold on every image of more than one pixel.
C13_SinglePeakOnLargerImages ==
    heat_args.image.h * heat_args.image.w > 1 => SinglePeak

\* The surviving detections in detector order.
SurvivingBoxes == SelectSeq(heat_boxes, LAMBDA b : TenthsWeight(b) > 0)

\* C14: the weight of a detection is its confidence when weighting is
\* 'confidence' and its resolved severity weight (class name lookup with the
\* default_severity fallback) when weighting is 'severity'; a detection whose
\* weight is <= 0 adds nothing to the accumulation field.
C14_PointWeights ==
    (Rendered /\ heat_args.weighting \in {"confidence", "severity"})
        => /\ Len(heat_result.points) = Len(SurvivingBoxes)
           /\ \A k \in 1 .. Len(SurvivingBoxes) :
                 LET box == SurvivingBoxes[k]
                 IN  /\ heat_result.points[k].weight =
                            IF heat_args.weighting = "confidence"
                            THEN Rat(box.conf, 10)
                            ELSE Float(WeightFor(box, heat_args.severity_map,
                                                 heat_args.default_s_i))
                     /\ <<heat_result.points[k].cy, heat_result.points[k].cx>> =
                            CentrePixel(box)
           /\ \A p \in Pixels(heat_args.image.h, heat_args.image.w) :
                 (\A k \in 1 .. Len(SurvivingBoxes) : CentrePixel(SurvivingBoxes[k]) # p)
                     => heat_result.raw[p] = Float(0)

\* Severity weighting with an Acne box of weight 0 dropped and an unknown
\* class kept at the default weight 2.
C14_Witness ==
    /\ Rendered
    /\ heat_args.weighting = "severity"
    /\ heat_args.severity_map = ("Acne" :> 0)
    /\ Len(heat_boxes) = 2
    /\ heat_boxes[1].cls = 0 /\ heat_boxes[2].cls = 7
    /\ Len(heat_result.points) = 1
    /\ heat_result.points[1].weight = Float(2)
    /\ heat_result.blended

\* alpha x colour + (1 - alpha) x original, exactly.
ExactBlend(alpha, colour, original) ==
    LET an == alpha[1]
        ad == alpha[2]
    IN  Rat(an * colour + (ad - an) * original, ad)

Between(v, a, b) == (a <= v /\ v <= b) \/ (b <= v /\ v <= a)

\* C15: for alpha in [0,1] every channel value of every pixel of the overlay
\* lies between the original-image value and the colour-mapped value
\* (inclusive), and is alpha x colour + (1 - alpha) x original up to rounding.
C15_OverlayIsBlend ==
    (Rendered /\ heat_result.blended
        /\ RLe(Float(0), heat_args.alpha) /\ RLe(heat_args.alpha, Float(1)))
        => \A p \in Pixels(heat_args.image.h, heat_args.image.w) : \A k \in 1 .. 3 :
               LET v == heat_result.overlay[p][k]
                   c == heat_result.colour[p][k]
                   o == heat_args.image.px[p][k]
                   e == ExactBlend(heat_args.alpha, c, o)
               IN  /\ Between(v, o, c)
                   /\ 2 * Abs(v * e[2] - e[1]) <= e[2]

\* A blend at alpha 0.3 whose value lies strictly between a hot colour
\* channel and the original byte.
C15_Witness ==
    /\ Rendered /\ heat_result.blended
    /\ heat_args.alpha = Rat(3, 10)
    /\ \E p \in Pixels(heat_args.image.h, heat_args.image.w) : \E k \in 1 .. 3 :
          /\ heat_result.field[p] = 255
          /\ heat_result.colour[p][k] < heat_result.overlay[p][k]
          /\ heat_result.overlay[p][k] < heat_args.image.px[p][k]

\* --------------------------------------------- the claims on the whole call
HasReturned == call.pc = "returned"
Succeeded == HasReturned /\ call.results.success

\* C12: in every successful analysis result, if no detection is usable
\* (lesion_count = 0, including the case where all raw boxes have non-positive
\* width or height) then heatmap_overlay equals the original image pixel for
\* pixel.
C12_Original ==
    (Succeeded /\ call.results.lesion_count = 0)
        => call.results.heatmap_overlay_bgr = <<call.results.original_image_bgr[1].px>>

\* The overlay is the original image whenever the detector returned no box.
C12_NoRawDetections ==
    (Succeeded /\ call.args.detected \in {<<>>, AsResults(<<>>)})
        => call.results.heatmap_overlay_bgr = <<call.results.original_image_bgr[1].px>>

\* The input errors of a call: a missing model file, a missing image file, an
\* image file that cannot be decoded.
InputError ==
    \/ ~call.args.model_exists
    \/ ~call.args.image_exists
    \/ (call.args.decoded = <<>> /\ call.args.fault = NoFault)

ExpectedInputErrorMessage ==
    IF ~call.args.model_exists THEN Message("Model file not found: ", call.args.model_path)
    ELSE IF ~call.args.image_exists
    THEN Message("Image file not found: ", call.args.image_path)
    ELSE Message("Could not read image file: ", call.args.image_path)

C17_ExceptionsBecomeFailures ==
    /\ ~call.propagated
    /\ (HasReturned /\ call.args.fault # NoFault /\ ~InputError) =>
          /\ call.results.success = FALSE
          /\ call.results.message.about = call.args.fault.text
          /\ call.results.message.text \in
                 {"File Error: ", "Import Error: Missing library. ",
                  "An unexpected error occurred: "}
    /\ call.results.success =>
          /\ HasReturned
          /\ call.steps = <<"load", "read", "predict", "score", "heatmap", "extract">>

\* A RuntimeError raised by the heatmap step has been turned into a failure.
C17_Witness ==
    /\ HasReturned
    /\ call.args.fault.at = "heatmap" /\ call.args.fault.class = "RuntimeError"
    /\ call.steps = <<"load", "read", "predict", "score">>
    /\ call.results.message = Message("An unexpected error occurred: ", "CUDA out of memory")
    /\ ~call.results.success

\* The name of a raw detection's class: the model's name for a known class
\* id, the synthetic fallback otherwise.
LabelOf(box) ==
    [class_name |-> IF box.cls \in DOMAIN model_names THEN model_names[box.cls]
                    ELSE FormatClass(box.cls),
     confidence |-> box.conf]
raw_boxes == IF Len(call.args.detected) = 0 THEN <<>> ELSE call.args.detected[1].boxes

\* C18: on success the detections list holds one (class_name, confidence)
\* entry per raw detection, in detector order and whether or not the box is
\* usable; building the list changes none of severity_score, percentage_area,
\* average_intensity, lesion_count or heatmap_overlay.
C18_LabelsForEveryRawDetection ==
    /\ [](Succeeded =>
              call.results.detections = [i \in 1 .. Len(raw_boxes) |-> LabelOf(raw_boxes[i])])
    /\ [][CallExtract =>
              /\ call'.results.severity_score = call.results.severity_score
              /\ call'.results.percentage_area = call.results.percentage_area
              /\ call'.results.average_intensity = call.results.average_intensity
              /\ call'.results.lesion_count = call.results.lesion_count
              /\ call'.results.heatmap_overlay_bgr = call.results.heatmap_overlay_bgr]_vars

\* A successful result that labels a zero-width box and an unknown class, in
\* detector order, while only one lesion was scored.
C18_Witness ==
    /\ Succeeded
    /\ Len(raw_boxes) = 2
    /\ raw_boxes[1].x2 = raw_boxes[1].x1
    /\ call.results.lesion_count = 1
    /\ call.results.detections =
           <<[class_name |-> "Acne", confidence |-> 9],
             [class_name |-> "class_7", confidence |-> 3]>>

\* ------------------------------------------- the claim on concurrent calls
\* C20: under any interleaving of two analyze_skin_image calls, with the same
\* or with different severity maps and score ranges, each call returns the
\* result it would return when run alone.
C20_CallsDoNotInterfere ==
    \A i \in Callers :
        calls.run[i].pc = "returned"
            => calls.run[i].results = analyze_skin_image(calls.run[i].args)

\* Two successful calls with different severity maps and score ranges have
\* returned different scores after the turn passed between them at least twice.
C20_Witness ==
    /\ \A i \in Callers : calls.run[i].pc = "returned" /\ calls.run[i].results.success
    /\ calls.switches = MaxSwitches
    /\ calls.run[1].args.severity_map # calls.run[2].args.severity_map
    /\ calls.run[1].args.score_range # calls.run[2].args.score_range
    /\ calls.run[1].results.severity_score # calls.run[2].results.severity_score

\* ----------------------------------------------- failures after the scoring
NumericDefaults ==
    /\ call.results.severity_score = Float(call.args.score_range[1])
    /\ call.results.percentage_area = Float(0)
    /\ call.results.average_intensity = Float(0)
    /\ call.results.lesion_count = 0

Failed == HasReturned /\ ~call.results.success
Reached(step) == \E k \in 1 .. Len(call.steps) : call.steps[k] = step

\* C28 as stated: every result with success = false, one raised after the
\* score was computed included, has the numeric fields at their defaults and
\* an empty detections list.
C28_Original == Failed => (NumericDefaults /\ call.results.detections = <<>>)

\* The tuple calculate_facial_severity_v2 returns for the call's arguments.
ScoreOfCall ==
    calculate_facial_severity_v2(call.args.detected, <<call.args.decoded[1].h,
        call.args.decoded[1].w>>, model_names, call.args.severity_map,
        call.args.default_severity, call.args.score_range,
        <<call.args.area_weight, call.args.intensity_weight>>)

\* C28: a result with success = false has the numeric fields at their
\* defaults and no overlay when the call failed before the scoring block
\* completed; when it failed later, in heatmap rendering or label extraction,
\* the numeric fields hold the computed score tuple, the overlay is absent
\* exactly when the heatmap block raised, and detections holds the labels
\* appended before the raise.
C28_PartialOutputAfterScoring ==
    Failed =>
        /\ ~Reached("score") =>
              /\ NumericDefaults
              /\ call.results.heatmap_overlay_bgr = <<>>
              /\ call.results.detections = <<>>
        /\ Reached("score") =>
              /\ call.args.fault.at \in {"heatmap", "extract"}
              /\ call.results.severity_score = ScoreOfCall.score
              /\ call.results.percentage_area = ScoreOfCall.percentage_area
              /\ call.results.average_intensity = ScoreOfCall.average_intensity
              /\ call.results.lesion_count = ScoreOfCall.lesion_count
              /\ (call.results.heatmap_overlay_bgr = <<>>) <=> (call.args.fault.at = "heatmap")
              /\ \E n \in 0 .. Len(raw_boxes) :
                     /\ n <= call.args.fault.after
                     /\ call.results.detections = [i \in 1 .. n |-> LabelOf(raw_boxes[i])]

\* The label loop raised after one label: the failure result carries the
\* score of one lesion, an overlay and that label.
C28_Witness ==
    /\ Failed
    /\ call.args.fault.at = "extract" /\ call.args.fault.after = 1
    /\ call.results.lesion_count = 1
    /\ call.results.severity_score # Float(call.args.score_range[1])
    /\ call.results.heatmap_overlay_bgr # <<>>
    /\ Len(call.results.detections) = 1

\* ------------------------------------------------- the clamping of centres
OutsideImage(box) ==
    \/ box.x2 <= 0 \/ box.y2 <= 0
    \/ box.x1 >= heat_args.image.w \/ box.y1 >= heat_args.image.h

\* C29: every detection centre is clamped so that 0 <= cx <= width - 1 and
\* 0 <= cy <= height - 1, for boxes lying partly or wholly outside the image
\* too; every write into the accumulation field is at an in-bounds index and
\* no detection is dropped for being out of the image.
C29_CentresInBounds ==
    Rendered =>
        /\ \A k \in 1 .. Len(heat_result.points) :
              /\ heat_result.points[k].cx \in 0 .. heat_args.image.w - 1
              /\ heat_result.points[k].cy \in 0 .. heat_args.image.h - 1
        /\ Len(heat_result.points) = Cardinality(Surviving)
        /\ DOMAIN heat_result.raw = Pixels(heat_args.image.h, heat_args.image.w)

\* Two boxes wholly outside a 2x3 image, one beyond its last row and column
\* and one at negative coordinates, both kept: at the last and first pixel.
C29_Witness ==
    /\ Rendered
    /\ heat_args.image.h = 2 /\ heat_args.image.w = 3
    /\ Len(heat_boxes) = 2
    /\ OutsideImage(heat_boxes[1]) /\ heat_boxes[1].x1 = 4
    /\ OutsideImage(heat_boxes[2]) /\ heat_boxes[2].x1 = -5
    /\ Len(heat_result.points) = 2
    /\ <<heat_result.points[1].cy, heat_result.points[1].cx>> = <<1, 2>>
    /\ <<heat_result.points[2].cy, heat_result.points[2].cx>> = <<0, 0>>

\* ------------------------------------------- the claims on the HTTP endpoint
Responded == request.response # <<>>
Analysed == request.analysis_results # <<>>

\* The statuses the endpoint answers with when the detector raised.
DetectorRaisedStatuses(endpoint) ==
    {Respond(Cleanup(Analyze([NewRequest([endpoint |-> endpoint,
            content_type |-> "image/png", upload |-> "image", read_raises |-> FALSE,
            remove_raises |-> FALSE, model_exists |-> TRUE, fault |-> f])
        EXCEPT !.pc = "analyze", !.temp_image_path = <<"tmp">>,
               !.temp_file = TRUE, !.created = TRUE]))).response[1].status :
        f \in ApiFaults \ {NoFault}}

\* The model file is missing, or analyze_skin_image found the image missing
\* or unreadable.
Unavailable ==
    /\ request.args.content_type \in ALLOWED_FILE_TYPES
    /\ ~request.args.read_raises /\ ~request.args.remove_raises
    /\ \/ ~request.args.model_exists
       \/ /\ Analysed
          /\ request.analysis_results[1].message.text \in
                 {"Image file not found: ", "Could not read image file: "}

\* Every failure result of analyze_skin_image is answered with an error.
C21_FailuresAreErrors ==
    (Responded /\ Analysed /\ ~request.analysis_results[1].success)
        => request.response[1].status >= 400

\* C21: the endpoint maps every failure result of analyze_skin_image to an
\* error response, and the response for 'model or image unavailable' differs
\* in its status code from the response for 'detector raised during
\* inference'.
C21_Original ==
    /\ C21_FailuresAreErrors
    /\ (Responded /\ Unavailable)
           => request.response[1].status \notin
                  DetectorRaisedStatuses(request.args.endpoint)

\* C30: for every request that created a temporary image file, the file is
\* deleted before the response is produced, whether the analysis succeeded,
\* returned a failure result or raised.
C30_Original == (Responded /\ request.created) => ~request.temp_file

\* The temporary file is gone whenever its path was assigned and os.remove
\* did not raise.
C30_DeletedWhenPathAssigned ==
    (Responded /\ request.temp_image_path # <<>> /\ ~request.args.remove_raises)
        => ~request.temp_file

\* ---------------------------------------------------------------------------
\* The profile store
\* ---------------------------------------------------------------------------

ProfileFields == {"user_id", "name", "dob", "height", "weight", "gender"}

\* A height or weight of a valid profile: None or a positive number.
ValidMeasure(v) == v = PyNone \/ (IsNumber(v) /\ ~IsNaN(v) /\ v.n > 0)

ValidProfile(a) ==
    /\ NonEmptyStr(a.user_id) /\ NonEmptyStr(a.name) /\ NonEmptyStr(a.dob)
    /\ StrptimeYmd(a.dob.s)
    /\ ValidMeasure(a.height) /\ ValidMeasure(a.weight)
    /\ a.gender = PyNone \/ a.gender.t = "str"

\* The last operation was a get_profile_from_db that returned.
Got == profile_db.op.kind = "get" /\ profile_db.op.raised = ""

\* The last operation was a save_profile_to_db that returned.
Saved == profile_db.op.kind = "save" /\ profile_db.op.raised = ""

\* The arguments of the user's most recent save that returned, if any.
LastSave(u) == profile_db.saved[u]

\* C22: get_profile_from_db returns None for a user never saved, and for a
\* user whose last saved profile is valid a record whose six fields equal
\* (Python ==) the saved values, None included.
C22_RoundTrip ==
    Got =>
        LET u == profile_db.op.args.user_id.s
            got == profile_db.op.result
        IN  IF LastSave(u) = <<>>
            THEN got = <<>>
            ELSE ValidProfile(LastSave(u)[1]) =>
                    /\ got # <<>>
                    /\ \A f \in ProfileFields : PyEq(got[1][f], LastSave(u)[1][f])

C22_Witness ==
    /\ Got
    /\ LastSave("u1") # <<>>
    /\ profile_db.op.args.user_id = PyStr("u1")
    /\ LastSave("u1")[1].height = PyNone
    /\ LastSave("u1")[1].weight = PyNone
    /\ LastSave("u1")[1].gender = PyNone
    /\ profile_db.op.result # <<>>
    /\ profile_db.op.result[1].height = PyNone
    /\ LastSave("u2") # <<>>
    /\ LastSave("u2")[1].height = PyInt(180)

\* C23: the table holds at most one row per user_id, the row of a saved user
\* is the one written by the user's most recent save and is what get returns,
\* and a save leaves the rows of every other user as they were.
C23_Upsert ==
    /\ \A r1, r2 \in profile_db.table : r1.user_id = r2.user_id => r1 = r2
    /\ \A u \in ProfileUsers :
          {r \in profile_db.table : r.user_id = PyStr(u)} =
              IF LastSave(u) = <<>> THEN {} ELSE {StoredRow(LastSave(u)[1])}
    /\ (Got /\ profile_db.op.result # <<>>) =>
          profile_db.op.result[1] = StoredRow(LastSave(profile_db.op.args.user_id.s)[1])
    /\ Saved =>
          {r \in profile_db.table : r.user_id # profile_db.op.args.user_id} =
          {r \in profile_db.op.before : r.user_id # profile_db.op.args.user_id}

\* A save replaced the user's earlier row while another user's row stayed.
C23_Witness ==
    /\ Saved
    /\ \E r \in profile_db.op.before :
          /\ r.user_id = profile_db.op.args.user_id
          /\ r \notin profile_db.table
    /\ \E r \in profile_db.op.before :
          /\ r.user_id # profile_db.op.args.user_id
          /\ r \in profile_db.table
    /\ Cardinality(profile_db.table) = 2

\* What the claim calls invalid arguments of save_profile_to_db.
NotAPositiveNumber(v) == v # PyNone /\ (~IsNumber(v) \/ IsNaN(v) \/ v.n <= 0)

InvalidProfile(a) ==
    \/ ~NonEmptyStr(a.user_id)
    \/ ~NonEmptyStr(a.name)
    \/ ~(NonEmptyStr(a.dob) /\ StrptimeYmd(a.dob.s))
    \/ NotAPositiveNumber(a.height)
    \/ NotAPositiveNumber(a.weight)

\* C24: a save_profile_to_db with an empty or non-string user_id or name, a
\* dob that is no YYYY-MM-DD date, or a non-null height or weight that is not
\* a number or is not positive, raises ValidationError and leaves the table
\* unchanged.
C24_Original ==
    (profile_db.op.kind = "save" /\ InvalidProfile(profile_db.op.args)) =>
        /\ profile_db.op.raised = "ValidationError"
        /\ profile_db.table = profile_db.op.before

\* Whenever save_profile_to_db raises, the table is as it was before the call,
\* and invalid arguments are reported before the database is touched.
C24_RaisingSaveWritesNothing ==
    (profile_db.op.kind = "save" /\ profile_db.op.raised # "") =>
        /\ profile_db.table = profile_db.op.before
        /\ validate_profile_data(profile_db.op.args) # "" => profile_db.op.raised = "ValidationError"

\* ---------------------------------------------------------------------------
\* The time-series store
\* ---------------------------------------------------------------------------

\* C25: a setup_databases on databases without tables leaves both tables in
\* place, each with at least one row.
C25_Original ==
    [][(/\ ~ts_db.timeseries_table
        /\ ~ts_db.profiles_table
        /\ ts_db'.op.kind = "setup_databases")
       => /\ ts_db'.timeseries_table /\ ts_db'.profiles_table
          /\ ts_db'.timeseries # {}
          /\ ts_db'.profiles # {}]_vars

\* After setup_databases both tables exist and profiles holds its sample row.
C25_TablesAndProfileSample ==
    ts_db.op.kind = "setup_databases" =>
        /\ ts_db.timeseries_table /\ ts_db.profiles_table
        /\ sample_data \in ts_db.profiles

\* The last operation was a get_latest_timeseries_data that returned.
GotEntries == ts_db.op.kind = "get" /\ ts_db.op.raised = ""

\* C26: the list get_latest_timeseries_data returns holds each row stored for
\* the user once, as stored, and no row of another user; it is in ascending
\* order of the timestamps, and it is empty when the user has no rows.
C26_EntriesOfUserAscending ==
    GotEntries =>
        LET got == ts_db.op.result
            mine == {r \in ts_db.timeseries : r.user_id = ts_db.op.args["user_id"]}
        IN  /\ Len(got) = Cardinality(mine)
            /\ \A r \in mine : \E i \in DOMAIN got : got[i] = EntryOf(r)
            /\ \A i \in DOMAIN got : \E r \in mine : r.id = got[i]["id"]
            /\ \A i, j \in DOMAIN got :
                  i < j => TextOrder(got[i]["timestamp"].s) <= TextOrder(got[j]["timestamp"].s)
            /\ mine = {} => got = <<>>

\* Two entries of the user with different timestamps were returned while the
\* table also held a row of another user.
C26_Witness ==
    /\ GotEntries
    /\ Len(ts_db.op.result) >= 2
    /\ ts_db.op.result[1]["timestamp"] # ts_db.op.result[Len(ts_db.op.result)]["timestamp"]
    /\ \E r \in ts_db.timeseries : r.user_id # ts_db.op.args["user_id"]

\* The defaults the docstring of save_timeseries lists.
DocumentedDefault(key) ==
    CASE key = "sleep_quality" -> PyStr("unknown")
      [] key = "products_used" -> PyStr("")
      [] OTHER -> PyFloat(0)

Posted == ts_db.op.kind = "post"

\* C27: a POST without user_id or without timestamp is answered with 400; a
\* POST that is accepted adds exactly one row, under an id no row had, with
\* the documented default in every optional field the entry lacks or gives
\* as null; every other POST adds nothing; no POST changes or removes a row.
C27_PostAppendsOneRow ==
    Posted =>
        LET entry == ts_db.op.args
            before == ts_db.op.before
            added == ts_db.timeseries \ before
        IN  /\ before \subseteq ts_db.timeseries
            /\ (\E field \in {"user_id", "timestamp"} : field \notin DOMAIN entry)
                  => ts_db.op.status = 400
            /\ ts_db.op.status # 200 => added = {}
            /\ ts_db.op.status = 200 =>
                  /\ Cardinality(added) = 1
                  /\ \A row \in added :
                        /\ \A r \in before : r.id # row.id
                        /\ row.user_id = entry["user_id"]
                        /\ \A k \in OptionalFields :
                              (k \notin DOMAIN entry \/ entry[k] = PyNone)
                                  => PyEq(row[k], DocumentedDefault(k))

\* An entry with a null optional field was added to a table that had rows.
C27_Witness ==
    /\ Posted
    /\ ts_db.op.status = 200
    /\ ts_db.op.before # {}
    /\ "acne_severity_score" \in DOMAIN ts_db.op.args
    /\ ts_db.op.args["acne_severity_score"] = PyNone
    /\ Cardinality(ts_db.timeseries) = Cardinality(ts_db.op.before) + 1

====
